---- MODULE Spec2Model ----
(***************************************************************************)
(* A model of the yojimbo connection layer.                                *)
(*                                                                         *)
(*   - Message / MessageFactory reference counting (yojimbo_message.h).    *)
(*   - The Connection that is compiled (yojimbo_connection.cpp, lines      *)
(*     187-353): GeneratePacket, WritePacket, ProcessPacket, ProcessAcks,  *)
(*     AdvanceTime, Reset.  Specifications: Spec, LinkSpec, FairLinkSpec.  *)
(*   - The Connection inside "#if 0 // old stuff" (lines 369-657), which   *)
(*     keeps sentPackets / receivedPackets, the ack bits and m_error.      *)
(*     Specification: SpecOld.                                             *)
(*   - The channels, the SequenceBuffer and the bit streams are not part   *)
(*     of the two source files; they are modelled from the specification.  *)
(***************************************************************************)
EXTENDS Integers, Sequences, FiniteSets, TLC

VARIABLES
    blocks,     \* BlockMessage objects and the buffers they are given
    msgs,       \* MessageFactory: handle -> [state, refCount, addRefs, releases]
    chan,       \* endpoint -> channel id -> channel state
    conn,       \* endpoint -> state of the "#if 0" Connection (error, buffers, counters)
    net,        \* packets handed to the transport and not yet delivered or dropped
    sentLog,    \* channel id -> payloads accepted by SendMessage on endpoint "A"
    rcvLog,     \* channel id -> payloads returned by ReceiveMessage on endpoint "B"
    hist,       \* ghost facts about the run: resets, packets sent and not yet acked, ...
    out         \* the last call: its operation, inputs and return values ("Other" for a
                \* call whose results no property reads)

vars == <<blocks, msgs, chan, conn, net, sentLog, rcvLog, hist, out>>

-----------------------------------------------------------------------------
(* Bounds of the model *)

MaxHandles == 2          \* messages the factory creates in one run
MaxRefOps == 3           \* AddRef calls per message
MaxMsgs == 2             \* SendMessage calls accepted in one run
MaxNet == 1              \* packets in flight at once
MaxOldPackets == 2       \* packets one "#if 0" connection generates in one run

Min(a, b) == IF a < b THEN a ELSE b

-----------------------------------------------------------------------------
(* Message and MessageFactory: yojimbo_message.h *)

Handles == 1..MaxHandles

NoMessage == [state |-> "free", refCount |-> 0, addRefs |-> 0, releases |-> 0]

\* Message::Message: m_refCount(1)
MessageNew == [state |-> "alive", refCount |-> 1, addRefs |-> 0, releases |-> 0]

\* Message::AddRef: m_refCount++
MessageAddRef(m) == [m EXCEPT !.refCount = @ + 1, !.addRefs = @ + 1]

\* Message::Release: assert( m_refCount > 0 ); m_refCount--
MessageRelease(m) == [m EXCEPT !.refCount = @ - 1, !.releases = @ + 1]

\* A factory that deletes the message one reference too early
FactoryReleaseEarly(m) ==
    LET r == MessageRelease(m)
    IN  IF r.refCount <= 1 THEN [r EXCEPT !.state = "destroyed"] ELSE r

\* MessageFactory::Release: message->Release(), then delete when GetRefCount() == 0
FactoryRelease(m) ==
    LET r == MessageRelease(m)
    IN  IF r.refCount = 0 THEN [r EXCEPT !.state = "destroyed"] ELSE r

otherThanMsgs == <<blocks, chan, conn, net, sentLog, rcvLog, hist>>

\* MessageFactory::Create
Create(h) ==
    /\ msgs[h].state = "free"
    /\ msgs' = [msgs EXCEPT ![h] = MessageNew]
    /\ out' = [op |-> "Create", h |-> h]
    /\ UNCHANGED otherThanMsgs

\* MessageFactory::AddRef; the caller passes a message it holds a reference to
AddRef(h) ==
    /\ msgs[h].state = "alive"
    /\ msgs[h].addRefs < MaxRefOps
    /\ msgs' = [msgs EXCEPT ![h] = MessageAddRef(@)]
    /\ out' = [op |-> "AddRef", h |-> h]
    /\ UNCHANGED otherThanMsgs

\* MessageFactory::Release; the caller gives up a reference it holds
Release(h) ==
    /\ msgs[h].state = "alive"
    /\ msgs' = [msgs EXCEPT ![h] = FactoryRelease(@)]
    /\ out' = [op |-> "Release", h |-> h]
    /\ UNCHANGED otherThanMsgs

-----------------------------------------------------------------------------
(* BlockMessage and the buffer it is given: yojimbo_message.h, lines 81-114 *)

MaxBlockMessages == 2
MaxBuffers == 2

BlockMessages == 1..MaxBlockMessages
Buffers == 1..MaxBuffers
BlockSizes == {1, 2}

\* the NULL pointer; buffers and the allocator are non-zero addresses
NULL == 0
DefaultAllocator == 1

\* BlockMessage() : Message( 1 ), m_allocator(NULL), m_blockData(NULL), m_blockSize(0)
BlockMessageNew ==
    [state |-> "alive", m_allocator |-> NULL, m_blockData |-> NULL, m_blockSize |-> 0]

NoBlockMessage == [BlockMessageNew EXCEPT !.state = "none"]

\* a buffer: who holds it (the caller, a message, or nobody once it is freed) and
\* how often Allocator::Free was called on it
NoBuffer == [holder |-> "caller", frees |-> 0]

BlocksInit ==
    [message |-> [m \in BlockMessages |-> NoBlockMessage],
     buffer |-> [b \in Buffers |-> NoBuffer]]

\* void AttachBlock( Allocator & allocator, uint8_t * blockData, int blockSize )
BlockMessageAttach(msg, allocator, blockData, blockSize) ==
    [msg EXCEPT !.m_allocator = allocator, !.m_blockData = blockData,
                !.m_blockSize = blockSize]

\* a DetachBlock that clears the size only
BlockMessageDetachSizeOnly(msg) == [msg EXCEPT !.m_blockSize = 0]

\* void DetachBlock()
BlockMessageDetach(msg) ==
    [msg EXCEPT !.m_allocator = NULL, !.m_blockData = NULL, !.m_blockSize = 0]

\* ~BlockMessage(): if ( m_allocator ) m_allocator->Free( m_blockData )
BlockMessageFrees(msg) == IF msg.m_allocator # NULL THEN {msg.m_blockData} ELSE {}

BlockMessageDestructor(msg) ==
    LET cleared == IF msg.m_allocator # NULL
                   THEN [msg EXCEPT !.m_blockSize = 0, !.m_blockData = NULL,
                                    !.m_allocator = NULL]
                   ELSE msg
    IN  [cleared EXCEPT !.state = "destroyed"]

otherThanBlocks == <<msgs, chan, conn, net, sentLog, rcvLog, hist>>

\* a block message is constructed
NewBlockMessage(m) ==
    /\ blocks.message[m].state = "none"
    /\ blocks' = [blocks EXCEPT !.message[m] = BlockMessageNew]
    /\ out' = [op |-> "BlockMessage", m |-> m]
    /\ UNCHANGED otherThanBlocks

\* AttachBlock on a message that holds no buffer, with a buffer the caller holds:
\* the asserts are blockData, blockSize > 0 and !m_blockData
CallAttachBlock(m, b, blockSize) ==
    /\ blocks.message[m].state = "alive"
    /\ b # NULL
    /\ blockSize > 0
    /\ blocks.message[m].m_blockData = NULL
    /\ blocks.buffer[b].holder = "caller"
    /\ blocks' = [blocks EXCEPT
                     !.message[m] = BlockMessageAttach(@, DefaultAllocator, b, blockSize),
                     !.buffer[b].holder = "message"]
    /\ out' = [op |-> "AttachBlock", m |-> m]
    /\ UNCHANGED otherThanBlocks

\* DetachBlock: the buffer, if there was one, is the caller's again
CallDetachBlock(m) ==
    LET b == blocks.message[m].m_blockData
    IN  /\ blocks.message[m].state = "alive"
        /\ blocks' = [blocks EXCEPT
                         !.message[m] = BlockMessageDetach(@),
                         !.buffer = [x \in Buffers |->
                                        IF x = b THEN [@[x] EXCEPT !.holder = "caller"]
                                        ELSE @[x]]]
        /\ out' = [op |-> "DetachBlock", m |-> m]
        /\ UNCHANGED otherThanBlocks

\* the message is deleted: ~BlockMessage() runs
DestroyBlockMessage(m) ==
    LET freed == BlockMessageFrees(blocks.message[m])
    IN  /\ blocks.message[m].state = "alive"
        /\ blocks' = [blocks EXCEPT
                         !.message[m] = BlockMessageDestructor(@),
                         !.buffer = [x \in Buffers |->
                                        IF x \in freed
                                        THEN [holder |-> "freed", frees |-> @[x].frees + 1]
                                        ELSE @[x]]]
        /\ out' = [op |-> "~BlockMessage", m |-> m, freed |-> freed]
        /\ UNCHANGED otherThanBlocks

-----------------------------------------------------------------------------
(* Configuration: ConnectionConfig and ChannelConfig *)

NumChannels == 2                 \* channel 0 reliable-ordered, channel 1 unreliable-unordered
SendQueueSize == 2
ReceiveQueueSize == 2
MaxMessagesPerPacket == 2
SlidingWindowSize == 4           \* assert( ( 65536 % slidingWindowSize ) == 0 )
MessageResendTime == 1           \* in ticks of AdvanceTime
PacketBudgetBits == 256

SeqMod == 65536                  \* uint16_t sequence numbers and message ids

ConservativeConnectionPacketHeaderEstimate == 128
ConservativeChannelHeaderEstimate == 32

Channels == 0..(NumChannels - 1)
Endpoints == {"A", "B"}
Peer(e) == IF e = "A" THEN "B" ELSE "A"
IsReliable(c) == c = 0

BodySizes == {8, 100}            \* bits of a message body, chosen by the application
PacketSizes == {4, 32, 64}       \* maxPacketBytes handed to GeneratePacket

\* sequence_greater_than / sequence_less_than on 16-bit sequence numbers
SequenceGreaterThan(s1, s2) ==
    \/ (s1 > s2 /\ s1 - s2 <= SeqMod \div 2)
    \/ (s1 < s2 /\ s2 - s1 > SeqMod \div 2)

SequenceLessThan(s1, s2) == SequenceGreaterThan(s2, s1)

\* bits_required( 0, n ): the bits of an integer serialized in [0, n]
RECURSIVE BitsFor(_)
BitsFor(n) == IF n <= 0 THEN 0 ELSE 1 + BitsFor(n \div 2)

-----------------------------------------------------------------------------
(* ReliableOrderedChannel, from the specification (section 4.3) *)

\* block: the fragments of a block message's buffer, <<>> for a plain message
NoSlot == [used |-> FALSE, id |-> 0, payload |-> 0, body |-> 0, age |-> 0, block |-> <<>>]
\* fragment: the fragment id the packet carried, -1 when it carried messages
NoSentEntry == [valid |-> FALSE, seq |-> 0, ids |-> <<>>, fragment |-> -1]
NoRecvSlot == [used |-> FALSE, id |-> 0, payload |-> 0, body |-> 0, block |-> <<>>]

\* blockFragmentSize (bytes), the most fragments a block has, fragmentResendTime
BlockFragmentSize == 1
MaxFragments == 2
FragmentResendTime == 1

\* sendBlock and receiveBlock: the fragment state of the one block in flight
NoSendBlock ==
    [active |-> FALSE, messageId |-> 0, numFragments |-> 0, acked |-> {},
     age |-> [f \in 0..(MaxFragments - 1) |-> 0]]
NoReceiveBlock ==
    [active |-> FALSE, messageId |-> 0, numFragments |-> 0, received |-> {},
     blockBuffer |-> [f \in 0..(MaxFragments - 1) |-> 0],
     headerMessage |-> [present |-> FALSE, payload |-> 0, body |-> 0]]

RelInit ==
    [ sendMessageId |-> 0,
      oldestUnackedMessageId |-> 0,
      sendQueue |-> [i \in 0..(SendQueueSize - 1) |-> NoSlot],
      sentPacketMessageIds |-> [i \in 0..(SlidingWindowSize - 1) |-> NoSentEntry],
      receiveMessageId |-> 0,
      receiveQueue |-> [i \in 0..(ReceiveQueueSize - 1) |-> NoRecvSlot],
      sendBlock |-> NoSendBlock,
      receiveBlock |-> NoReceiveBlock,
      error |-> FALSE ]

\* bits of one serialized message: id (reliable only), type index, body
MessageTypeBits == 2
MessageBits(c, body) == (IF IsReliable(c) THEN 16 ELSE 0) + MessageTypeBits + body

\* bits of the numMessages field of a MessagesPayload
NumMessagesBits == BitsFor(MaxMessagesPerPacket)

\* bits of a MessagesPayload: numMessages, then each message
RECURSIVE MessagesBits(_, _)
MessagesBits(c, messages) ==
    IF messages = <<>> THEN 0
    ELSE MessageBits(c, Head(messages).body) + MessagesBits(c, Tail(messages))

PayloadBits(c, messages) == NumMessagesBits + MessagesBits(c, messages)

\* a channel that always takes the message
RelCanSendAlways(ch) == TRUE

\* CanSendMessage: the slot at sendMessageId mod sendQueueSize is free
RelCanSend(ch) == ~ch.sendQueue[ch.sendMessageId % SendQueueSize].used

\* SendMessage: m.id = sendMessageId++, stored with timeLastSent = -infinity;
\* block is the buffer of a block message, <<>> for a plain one
RelSendMsg(ch, payload, body, block) ==
    [ch EXCEPT !.sendQueue[ch.sendMessageId % SendQueueSize] =
                   [used |-> TRUE, id |-> ch.sendMessageId, payload |-> payload,
                    body |-> body, age |-> MessageResendTime, block |-> block],
               !.sendMessageId = (@ + 1) % SeqMod]

RelSend(ch, payload, body) == RelSendMsg(ch, payload, body, <<>>)

\* a block message sits at the front of the send queue
RelFrontIsBlock(ch) ==
    LET slot == ch.sendQueue[ch.oldestUnackedMessageId % SendQueueSize]
    IN  slot.used /\ slot.id = ch.oldestUnackedMessageId /\ slot.block # <<>>

\* bits of a BlockFragmentPayload: messageId, fragmentId, numFragments,
\* fragmentBytes, the fragment bytes, and on fragment zero the header message
FragmentBits(f) ==
    16 + BitsFor(MaxFragments - 1) + BitsFor(MaxFragments) + BitsFor(BlockFragmentSize)
       + 8 * BlockFragmentSize
       + (IF f.fragmentId = 0 THEN MessageTypeBits + f.body ELSE 0)

\* the sendBlock state for the block at the front: started when the channel
\* switches to fragment mode for that id
RelSendBlockFor(ch) ==
    LET slot == ch.sendQueue[ch.oldestUnackedMessageId % SendQueueSize]
    IN  IF ch.sendBlock.active /\ ch.sendBlock.messageId = slot.id THEN ch.sendBlock
        ELSE [active |-> TRUE, messageId |-> slot.id, numFragments |-> Len(slot.block),
              acked |-> {},
              age |-> [f \in 0..(MaxFragments - 1) |-> FragmentResendTime]]

\* GetPacketData in fragment mode: at most one fragment, the first one that is not
\* acked and is due for (re)sending, if it fits
RelGetFragmentData(ch, c, seq, availableBits) ==
    LET slot == ch.sendQueue[ch.oldestUnackedMessageId % SendQueueSize]
        sb == RelSendBlockFor(ch)
        due == {f \in 0..(sb.numFragments - 1) :
                   f \notin sb.acked /\ sb.age[f] >= FragmentResendTime}
        f == CHOOSE x \in due : \A y \in due : x <= y
        fragment == [messageId |-> slot.id, fragmentId |-> f,
                     numFragments |-> sb.numFragments, data |-> slot.block[f + 1],
                     payload |-> IF f = 0 THEN slot.payload ELSE 0,
                     body |-> IF f = 0 THEN slot.body ELSE 0]
    IN  IF due = {} \/ FragmentBits([fragmentId |-> 0, body |-> slot.body])
                          > Min(availableBits, PacketBudgetBits)
        THEN [ch |-> [ch EXCEPT !.sendBlock = sb], bits |-> 0, data |-> <<>>,
              blockMessage |-> FALSE]
        ELSE [ch |-> [ch EXCEPT
                        !.sendBlock = [sb EXCEPT !.age[f] = 0],
                        !.sentPacketMessageIds[seq % SlidingWindowSize] =
                            [valid |-> TRUE, seq |-> seq, ids |-> <<slot.id>>,
                             fragment |-> f]],
              bits |-> FragmentBits(fragment),
              data |-> <<fragment>>,
              blockMessage |-> TRUE]

\* a selection that does not wait for messageResendTime
RECURSIVE RelSelectEager(_, _, _, _)
RelSelectEager(ch, i, bitsLeft, picked) ==
    IF i >= SendQueueSize \/ Len(picked) >= MaxMessagesPerPacket THEN picked
    ELSE LET id == (ch.oldestUnackedMessageId + i) % SeqMod
             slot == ch.sendQueue[id % SendQueueSize]
             cost == MessageBits(0, slot.body)
         IN  IF slot.used /\ slot.id = id /\ slot.block # <<>> THEN picked
             ELSE IF slot.used /\ slot.id = id /\ cost <= bitsLeft
             THEN RelSelectEager(ch, i + 1, bitsLeft - cost, Append(picked, id))
             ELSE RelSelectEager(ch, i + 1, bitsLeft, picked)

\* The ids GetPacketData selects: ascending from oldestUnackedMessageId, each one
\* present, due for (re)sending and fitting in what is left of the budget.
RECURSIVE RelSelect(_, _, _, _)
RelSelect(ch, i, bitsLeft, picked) ==
    IF i >= SendQueueSize \/ Len(picked) >= MaxMessagesPerPacket THEN picked
    ELSE LET id == (ch.oldestUnackedMessageId + i) % SeqMod
             slot == ch.sendQueue[id % SendQueueSize]
             cost == MessageBits(0, slot.body)
             take == /\ slot.used
                     /\ slot.id = id
                     /\ slot.age >= MessageResendTime
                     /\ cost <= bitsLeft
         IN  IF slot.used /\ slot.id = id /\ slot.block # <<>> THEN picked
             ELSE IF take THEN RelSelect(ch, i + 1, bitsLeft - cost, Append(picked, id))
             ELSE RelSelect(ch, i + 1, bitsLeft, picked)

\* GetPacketData( packetData, packetSequence, availableBits ): [ch, bits, data]
RelGetPacketData(ch, c, seq, availableBits) ==
    LET budget == Min(availableBits, PacketBudgetBits) - NumMessagesBits
        ids == RelSelect(ch, 0, budget, <<>>)
        slotOf(id) == ch.sendQueue[id % SendQueueSize]
        messages == [k \in 1..Len(ids) |->
                        [id |-> ids[k], payload |-> slotOf(ids[k]).payload,
                         body |-> slotOf(ids[k]).body]]
        picked == {ids[k] : k \in 1..Len(ids)}
        bits == PayloadBits(c, messages)
    IN  IF RelFrontIsBlock(ch) THEN RelGetFragmentData(ch, c, seq, availableBits)
        ELSE IF ids = <<>>
        THEN [ch |-> ch, bits |-> 0, data |-> <<>>, blockMessage |-> FALSE]
        ELSE [ch |-> [ch EXCEPT
                        !.sentPacketMessageIds[seq % SlidingWindowSize] =
                            [valid |-> TRUE, seq |-> seq, ids |-> ids, fragment |-> -1],
                        !.sendQueue = [i \in DOMAIN @ |->
                            IF @[i].used /\ @[i].id \in picked
                            THEN [@[i] EXCEPT !.age = 0] ELSE @[i]]],
              bits |-> bits,
              data |-> messages,
              blockMessage |-> FALSE]

\* an ack that leaves oldestUnackedMessageId where it was
RelAdvanceOldestStay(ch, oldest) == oldest

\* advance oldestUnackedMessageId past the ids that are no longer in the send queue
RECURSIVE RelAdvanceOldest(_, _)
RelAdvanceOldest(ch, oldest) ==
    IF oldest = ch.sendMessageId THEN oldest
    ELSE LET slot == ch.sendQueue[oldest % SendQueueSize]
         IN  IF slot.used /\ slot.id = oldest THEN oldest
             ELSE RelAdvanceOldest(ch, (oldest + 1) % SeqMod)

\* a sender that lets the block go at the first fragment ack
RelProcessFragmentAckFirst(ch, e) ==
    LET sb == ch.sendBlock
        left == [ch EXCEPT !.sendQueue[sb.messageId % SendQueueSize] = NoSlot,
                           !.sendBlock = NoSendBlock]
    IN  IF ~sb.active \/ sb.messageId # e.ids[1] THEN ch
        ELSE [left EXCEPT !.oldestUnackedMessageId = (@ + 1) % SeqMod]

\* ProcessAck for a packet that carried a block fragment: the fragment is marked
\* acked; when all are acked the block message leaves the send queue
RelProcessFragmentAck(ch, e) ==
    LET sb == ch.sendBlock
        acked == sb.acked \cup {e.fragment}
        all == acked = 0..(sb.numFragments - 1)
        left == [ch EXCEPT !.sendQueue[sb.messageId % SendQueueSize] = NoSlot,
                           !.sendBlock = NoSendBlock]
    IN  IF ~sb.active \/ sb.messageId # e.ids[1] THEN ch
        ELSE IF all
        THEN [left EXCEPT !.oldestUnackedMessageId = RelAdvanceOldest(left, @)]
        ELSE [ch EXCEPT !.sendBlock.acked = acked]

\* ProcessAck( packetSequence ): free the slots of the ids that packet carried
RelProcessAck(ch, seq) ==
    LET e == ch.sentPacketMessageIds[seq % SlidingWindowSize]
        acked == {e.ids[k] : k \in 1..Len(e.ids)}
        freed == [ch EXCEPT
                    !.sendQueue = [i \in DOMAIN @ |->
                        IF @[i].used /\ @[i].id \in acked THEN NoSlot ELSE @[i]]]
    IN  IF e.valid /\ e.seq = seq
        THEN IF e.fragment >= 0 THEN RelProcessFragmentAck(ch, e)
             ELSE [freed EXCEPT !.oldestUnackedMessageId = RelAdvanceOldest(freed, @)]
        ELSE ch

\* a receiver that takes an id wherever it lies
RelInWindowAny(ch, id) == TRUE

\* the receive window [receiveMessageId, receiveMessageId + receiveQueueSize), modulo 2^16
RelInWindow(ch, id) == (id - ch.receiveMessageId) % SeqMod < ReceiveQueueSize

\* ProcessPacketData for a MessagesPayload: store each id that is in the window
RECURSIVE RelProcessPacketData(_, _)
RelProcessPacketData(ch, messages) ==
    IF messages = <<>> THEN ch
    ELSE LET m == Head(messages)
             i == m.id % ReceiveQueueSize
             stored == IF RelInWindow(ch, m.id) /\ ~ch.receiveQueue[i].used
                       THEN [ch EXCEPT !.receiveQueue[i] =
                                [used |-> TRUE, id |-> m.id, payload |-> m.payload,
                                 body |-> m.body, block |-> <<>>]]
                       ELSE ch
         IN  RelProcessPacketData(stored, Tail(messages))

\* BlockMessage::AttachBlock( allocator, blockData, blockSize ): the message takes
\* the buffer; it must be non-empty and the message must hold none yet
AttachBlock(message, blockData) ==
    IF blockData # <<>> /\ message.block = <<>>
    THEN [message EXCEPT !.block = blockData] ELSE message

\* a receiver that takes every fragment, also of a block it has completed
RelFragmentAcceptedAlways(ch, f) ==
    ch.receiveBlock.active => ch.receiveBlock.messageId = f.messageId

\* a fragment is taken when its message id is in the receive window, its message is
\* not in the receive queue yet, and no other block is being received
RelFragmentAccepted(ch, f) ==
    /\ RelInWindow(ch, f.messageId)
    /\ ~ch.receiveQueue[f.messageId % ReceiveQueueSize].used
    /\ f.numFragments \in 1..MaxFragments
    /\ f.fragmentId \in 0..(f.numFragments - 1)
    /\ ch.receiveBlock.active =>
          /\ ch.receiveBlock.messageId = f.messageId
          /\ ch.receiveBlock.numFragments = f.numFragments

\* ProcessPacketData for a BlockFragmentPayload: keep the fragment in receiveBlock;
\* fragment zero brings the header message; once all fragments are there, the data is
\* concatenated in fragment order, attached to the header message and placed in the
\* receive queue, and receiveBlock is cleared
RelProcessFragment(ch, f) ==
    LET rb == IF ch.receiveBlock.active THEN ch.receiveBlock
              ELSE [NoReceiveBlock EXCEPT !.active = TRUE, !.messageId = f.messageId,
                                          !.numFragments = f.numFragments]
        kept == [rb EXCEPT
                   !.received = @ \cup {f.fragmentId},
                   !.blockBuffer[f.fragmentId] = f.data,
                   !.headerMessage = IF f.fragmentId = 0
                                     THEN [present |-> TRUE, payload |-> f.payload,
                                           body |-> f.body]
                                     ELSE @]
        blockData == [k \in 1..kept.numFragments |-> kept.blockBuffer[k - 1]]
        message == AttachBlock([used |-> TRUE, id |-> kept.messageId,
                                payload |-> kept.headerMessage.payload,
                                body |-> kept.headerMessage.body, block |-> <<>>],
                               blockData)
    IN  IF ~RelFragmentAccepted(ch, f) THEN ch
        ELSE IF kept.received = 0..(kept.numFragments - 1)
        THEN [ch EXCEPT !.receiveQueue[kept.messageId % ReceiveQueueSize] = message,
                        !.receiveBlock = NoReceiveBlock]
        ELSE [ch EXCEPT !.receiveBlock = kept]

\* ReceiveMessage: the slot at receiveMessageId mod receiveQueueSize, if present
RelCanReceive(ch) ==
    LET slot == ch.receiveQueue[ch.receiveMessageId % ReceiveQueueSize]
    IN  slot.used /\ slot.id = ch.receiveMessageId

RelReceived(ch) == ch.receiveQueue[ch.receiveMessageId % ReceiveQueueSize].payload

RelReceive(ch) ==
    [ch EXCEPT !.receiveQueue[ch.receiveMessageId % ReceiveQueueSize] = NoRecvSlot,
               !.receiveMessageId = (@ + 1) % SeqMod]

\* AdvanceTime( time ): dt ticks pass since the last call
RelAdvanceTime(ch, dt) ==
    [ch EXCEPT !.sendQueue = [i \in DOMAIN @ |->
        IF @[i].used THEN [@[i] EXCEPT !.age = Min(@ + dt, MessageResendTime)] ELSE @[i]],
               !.sendBlock.age = [f \in DOMAIN @ |->
        IF ch.sendBlock.active THEN Min(@[f] + dt, FragmentResendTime) ELSE @[f]]]

-----------------------------------------------------------------------------
(* UnreliableUnorderedChannel, from the specification (section 4.2) *)

UnrelInit == [sendQueue |-> <<>>, receiveQueue |-> <<>>, error |-> FALSE]

\* a send FIFO that refuses the new message when it is full
UnrelSendKeepOldest(ch, payload, body) ==
    IF Len(ch.sendQueue) >= SendQueueSize THEN ch
    ELSE [ch EXCEPT !.sendQueue = Append(@, [id |-> 0, payload |-> payload, body |-> body])]

\* SendMessage: a bounded FIFO; when full the oldest message is discarded
UnrelSend(ch, payload, body) ==
    LET m == [id |-> 0, payload |-> payload, body |-> body]
        q == IF Len(ch.sendQueue) >= SendQueueSize THEN Tail(ch.sendQueue)
             ELSE ch.sendQueue
    IN  [ch EXCEPT !.sendQueue = Append(q, m)]

\* how many messages from the front of the FIFO fit
RECURSIVE UnrelCount(_, _, _)
UnrelCount(q, bitsLeft, n) ==
    IF q = <<>> \/ n >= MaxMessagesPerPacket THEN n
    ELSE LET cost == MessageBits(1, Head(q).body)
         IN  IF cost <= bitsLeft THEN UnrelCount(Tail(q), bitsLeft - cost, n + 1)
             ELSE n

\* GetPacketData: drains the FIFO; the messages included leave the channel
UnrelGetPacketData(ch, c, seq, availableBits) ==
    LET budget == Min(availableBits, PacketBudgetBits) - NumMessagesBits
        n == UnrelCount(ch.sendQueue, budget, 0)
        messages == SubSeq(ch.sendQueue, 1, n)
    IN  IF n = 0 THEN [ch |-> ch, bits |-> 0, data |-> <<>>, blockMessage |-> FALSE]
        ELSE [ch |-> [ch EXCEPT !.sendQueue = SubSeq(@, n + 1, Len(@))],
              bits |-> PayloadBits(c, messages),
              data |-> messages,
              blockMessage |-> FALSE]

\* ProcessPacketData: enqueue each message; overflow discards the newest
RECURSIVE UnrelProcessPacketData(_, _)
UnrelProcessPacketData(ch, messages) ==
    IF messages = <<>> THEN ch
    ELSE LET stored == IF Len(ch.receiveQueue) < ReceiveQueueSize
                       THEN [ch EXCEPT !.receiveQueue = Append(@, Head(messages))]
                       ELSE ch
         IN  UnrelProcessPacketData(stored, Tail(messages))

UnrelCanReceive(ch) == ch.receiveQueue # <<>>
UnrelReceived(ch) == Head(ch.receiveQueue).payload
UnrelReceive(ch) == [ch EXCEPT !.receiveQueue = Tail(@)]

-----------------------------------------------------------------------------
(* Channel: the common contract, dispatched on the channel type *)

ChannelInit(c) == IF IsReliable(c) THEN RelInit ELSE UnrelInit

ChannelCanSend(ch, c) == IF IsReliable(c) THEN RelCanSend(ch) ELSE TRUE

ChannelSend(ch, c, payload, body) ==
    IF IsReliable(c) THEN RelSend(ch, payload, body) ELSE UnrelSend(ch, payload, body)

ChannelGetPacketData(ch, c, seq, availableBits) ==
    IF IsReliable(c) THEN RelGetPacketData(ch, c, seq, availableBits)
    ELSE UnrelGetPacketData(ch, c, seq, availableBits)

ChannelProcessAck(ch, c, seq) == IF IsReliable(c) THEN RelProcessAck(ch, seq) ELSE ch

ChannelProcessPacketData(ch, c, messages) ==
    IF IsReliable(c) THEN RelProcessPacketData(ch, messages)
    ELSE UnrelProcessPacketData(ch, messages)

ChannelCanReceive(ch, c) == IF IsReliable(c) THEN RelCanReceive(ch) ELSE UnrelCanReceive(ch)
ChannelReceived(ch, c) == IF IsReliable(c) THEN RelReceived(ch) ELSE UnrelReceived(ch)
ChannelReceive(ch, c) == IF IsReliable(c) THEN RelReceive(ch) ELSE UnrelReceive(ch)

ChannelAdvanceTime(ch, c, dt) == IF IsReliable(c) THEN RelAdvanceTime(ch, dt) ELSE ch

ChannelReset(ch, c) == ChannelInit(c)

-----------------------------------------------------------------------------
(* ConnectionPacket and WritePacket: yojimbo_connection.cpp, lines 36-253 *)

\* ChannelPacketData::SerializeInternal: channelId, the block flag, the payload
ChannelIdBits == IF NumChannels > 1 THEN BitsFor(NumChannels - 1) ELSE 0
ChannelEntryBits(entry) ==
    ChannelIdBits + 1
      + (IF entry.blockMessage THEN FragmentBits(entry.messages[1])
         ELSE PayloadBits(entry.channelId, entry.messages))

RECURSIVE EntriesBits(_)
EntriesBits(entries) ==
    IF entries = <<>> THEN 0
    ELSE ChannelEntryBits(Head(entries)) + EntriesBits(Tail(entries))

\* ConnectionPacket::Serialize: serialize_int( numChannelEntries, 0, numChannels ),
\* then each channel entry
ConnectionPacketBits(entries) == BitsFor(NumChannels) + EntriesBits(entries)

\* WriteStream: SerializeCheck aligns to a byte and writes 32 bits; Flush; a write past
\* the end of the buffer fails the stream
AlignedBits(bits) == ((bits + 7) \div 8) * 8
SerializeCheckBits == 32
StreamBits(entries) == AlignedBits(ConnectionPacketBits(entries)) + SerializeCheckBits
StreamFits(entries, bufferSize) == StreamBits(entries) <= bufferSize * 8

\* WritePacket: 0 when serialization fails, else stream.GetBytesProcessed()
WritePacket(entries, bufferSize) ==
    IF ~StreamFits(entries, bufferSize) THEN 0 ELSE StreamBits(entries) \div 8

-----------------------------------------------------------------------------
(* SequenceBuffer, from the specification (section 3) *)

NoEntry == [valid |-> FALSE, seq |-> 0, acked |-> FALSE]

SBInit == [sequence |-> 0, entries |-> [i \in 0..(SlidingWindowSize - 1) |-> NoEntry]]

\* Find( seq ): the entry, or absent
SBFind(sb, seq) ==
    LET entry == sb.entries[seq % SlidingWindowSize] IN entry.valid /\ entry.seq = seq

\* Insert fails if seq is older than the window
SBCanInsert(sb, seq) ==
    \/ SequenceGreaterThan((seq + 1) % SeqMod, sb.sequence)
    \/ ~SequenceLessThan(seq, (sb.sequence - SlidingWindowSize) % SeqMod)

\* Insert( seq ): a fresh entry; entries more than the window behind are evicted
SBInsert(sb, seq, entry) ==
    LET ahead == SequenceGreaterThan((seq + 1) % SeqMod, sb.sequence)
        gap == (seq - sb.sequence) % SeqMod
        swept == IF ~ahead THEN sb.entries
                 ELSE [i \in DOMAIN sb.entries |->
                         IF (i - sb.sequence) % SlidingWindowSize <= gap
                            \/ gap >= SlidingWindowSize
                         THEN NoEntry ELSE sb.entries[i]]
    IN  [sequence |-> IF ahead THEN (seq + 1) % SeqMod ELSE sb.sequence,
         entries |-> [swept EXCEPT ![seq % SlidingWindowSize] = entry]]

-----------------------------------------------------------------------------
(* Connection as compiled: yojimbo_connection.cpp, lines 187-353 *)

\* availableBits = maxPacketBytes * 8 - ConservativeConnectionPacketHeaderEstimate
InitialBits(maxPacketBytes) ==
    maxPacketBytes * 8 - ConservativeConnectionPacketHeaderEstimate

\* a budget that forgets what the channel took
BitsAfterChannelKept(availableBits, packetDataBits) == availableBits

\* a budget that forgets the channel header estimate
BitsAfterChannelNoHeader(availableBits, packetDataBits) == availableBits - packetDataBits

\* availableBits -= ConservativeChannelHeaderEstimate; availableBits -= packetDataBits
BitsAfterChannel(availableBits, packetDataBits) ==
    availableBits - ConservativeChannelHeaderEstimate - packetDataBits

\* a loop that gives every channel an entry, whether it returned data or not
RECURSIVE GatherChannelDataAll(_, _, _, _, _, _)
GatherChannelDataAll(chs, c, seq, availableBits, entries, offers) ==
    IF c >= NumChannels
    THEN [chs |-> chs, entries |-> entries, offers |-> offers]
    ELSE LET r == ChannelGetPacketData(chs[c], c, seq, availableBits)
         IN  GatherChannelDataAll([chs EXCEPT ![c] = r.ch], c + 1, seq,
                 IF r.bits > 0 THEN BitsAfterChannel(availableBits, r.bits)
                 ELSE availableBits,
                 Append(entries, [channelId |-> c, blockMessage |-> r.blockMessage,
                                  messages |-> r.data]),
                 Append(offers, [channelId |-> c, offered |-> availableBits,
                                 bits |-> r.bits]))

\* the loop over the channels: GetPacketData on each, in channel id order.
\* offers records, for each channel, the budget it was offered and the bits it took.
RECURSIVE GatherChannelData(_, _, _, _, _, _)
GatherChannelData(chs, c, seq, availableBits, entries, offers) ==
    IF c >= NumChannels
    THEN [chs |-> chs, entries |-> entries, offers |-> offers]
    ELSE LET r == ChannelGetPacketData(chs[c], c, seq, availableBits)
             next == [chs EXCEPT ![c] = r.ch]
             offer == [channelId |-> c, offered |-> availableBits, bits |-> r.bits]
         IN  IF r.bits > 0
             THEN GatherChannelData(next, c + 1, seq,
                      BitsAfterChannel(availableBits, r.bits),
                      Append(entries, [channelId |-> c, blockMessage |-> r.blockMessage,
                                       messages |-> r.data]),
                      Append(offers, offer))
             ELSE GatherChannelData(next, c + 1, seq, availableBits, entries,
                      Append(offers, offer))

\* Sequence numbers the caller of GeneratePacket and ProcessAcks uses
LiveSeqs == {0, SlidingWindowSize}

TotalSent == Len(sentLog[0]) + Len(sentLog[1])

\* the sequence is older than the window behind the newest sequence processed
StaleFor(newest, seq) ==
    /\ newest >= 0
    /\ SequenceLessThan(seq, (newest + 1 - SlidingWindowSize) % SeqMod)

NewestOf(newest, seq) ==
    IF newest < 0 \/ SequenceGreaterThan(seq, newest) THEN seq ELSE newest

\* SendMessage( channelId, message ): delegates to the channel
SendMessage(e, c, body) ==
    /\ TotalSent < MaxMsgs
    /\ LET ok == ChannelCanSend(chan[e][c], c)
           payload == TotalSent + 1
       IN  /\ chan' = IF ok THEN [chan EXCEPT ![e][c] = ChannelSend(@, c, payload, body)]
                      ELSE chan
           /\ sentLog' = IF ok THEN [sentLog EXCEPT ![c] = Append(@, payload)] ELSE sentLog
           /\ out' = [op |-> "Other"]
    /\ UNCHANGED <<blocks, msgs, conn, net, rcvLog, hist>>

\* ReceiveMessage that hands the message out and leaves it in the channel
ReceiveMessagePeek(e, c) ==
    /\ LET ok == ChannelCanReceive(chan[e][c], c)
       IN  /\ rcvLog' = IF ok /\ e = "B"
                        THEN [rcvLog EXCEPT ![c] = Append(@, ChannelReceived(chan[e][c], c))]
                        ELSE rcvLog
           /\ out' = [op |-> "Other"]
    /\ UNCHANGED <<blocks, msgs, chan, conn, net, sentLog, hist>>

\* ReceiveMessage( channelId ): delegates to the channel
ReceiveMessage(e, c) ==
    /\ LET ok == ChannelCanReceive(chan[e][c], c)
       IN  /\ chan' = IF ok THEN [chan EXCEPT ![e][c] = ChannelReceive(@, c)] ELSE chan
           /\ rcvLog' = IF ok /\ e = "B"
                        THEN [rcvLog EXCEPT ![c] = Append(@, ChannelReceived(chan[e][c], c))]
                        ELSE rcvLog
           /\ out' = [op |-> "Other"]
    /\ UNCHANGED <<blocks, msgs, conn, net, sentLog, hist>>

\* a channel detects an unrecoverable error (ChannelDesync, BlockOversize)
ChannelFault(e, c) ==
    /\ ~chan[e][c].error
    /\ chan' = [chan EXCEPT ![e][c].error = TRUE]
    /\ out' = [op |-> "Other"]
    /\ UNCHANGED <<blocks, msgs, conn, net, sentLog, rcvLog, hist>>

\* the transport loses a packet
Drop(p) ==
    /\ p \in net
    /\ net' = net \ {p}
    /\ out' = [op |-> "Other"]
    /\ UNCHANGED <<blocks, msgs, chan, conn, sentLog, rcvLog, hist>>

WirePacket(e, seq, ack, ackBits, entries) ==
    [to |-> Peer(e), seq |-> seq, ack |-> ack, ackBits |-> ackBits, entries |-> entries]

\* struct ConnectionPacket as compiled has numChannelEntries, channelEntry and
\* messageFactory and serializes only the entries: it carries no ack and no ack bits
NoAckHeader == [ack |-> -1, ackBits |-> {}]

\* the message references a packet's channel entries hold: one per message copied
\* into packet.channelEntry[index] by the memcpy of channelData[channelId]
PacketReferences(entries) ==
    UNION {{[channelId |-> entries[i].channelId, message |-> entries[i].messages[k]] :
               k \in 1..Len(entries[i].messages)} : i \in 1..Len(entries)}

\* ConnectionPacket::~ConnectionPacket(): "todo: shouldn't we be cleaning up channel
\* entries here?" - no reference is released and channelEntry is not freed
DestroyPacket(entries) ==
    [released |-> {}, channelEntryFreed |-> FALSE]

\* what a GeneratePacket call handed back: its return value and, when it got as far
\* as WritePacket, the packetBytes it stored; what each channel was offered and took;
\* what the packet held when the function returned and what its destructor did
GenerateResult(e, seq, maxPacketBytes, allocOk, g, ok, bytes) ==
    LET call == [op |-> "GeneratePacket",
                 maxPacketBytes |-> maxPacketBytes, allocOk |-> allocOk,
                 result |-> ok, numChannelEntries |-> Len(g.entries),
                 needed |-> StreamBits(g.entries),
                 afterFailure |-> out.op = "GeneratePacket" /\ ~out.result,
                 offers |-> g.offers,
                 from |-> e, ack |-> NoAckHeader.ack, ackBits |-> NoAckHeader.ackBits]
        gone == DestroyPacket(g.entries)
    IN  IF ok THEN call @@ [written |-> TRUE, packetBytes |-> bytes,
                            entries |-> g.entries,
                            entryChannelIds |-> [i \in 1..Len(g.entries) |->
                                                    g.entries[i].channelId],
                            held |-> PacketReferences(g.entries),
                            released |-> gone.released,
                            channelEntryFreed |-> gone.channelEntryFreed]
        ELSE call @@ [written |-> FALSE]

\* Connection::GeneratePacket that keeps CONNECTION_ERROR_OUT_OF_MEMORY and refuses afterwards
GeneratePacketLatched(e, seq, maxPacketBytes, allocOk, send) ==
    \E g \in {GatherChannelData(chan[e], 0, seq, InitialBits(maxPacketBytes), <<>>, <<>>)} :
    LET failed == conn[e].error # "NONE" \/ (Len(g.entries) > 0 /\ ~allocOk)
        bytes == WritePacket(g.entries, maxPacketBytes)
    IN  /\ chan' = [chan EXCEPT ![e] = g.chs]
        /\ conn' = [conn EXCEPT ![e].error = IF failed THEN "OUT_OF_MEMORY" ELSE @]
        /\ net' = IF ~failed /\ bytes > 0 /\ send /\ Cardinality(net) < MaxNet
                  THEN net \cup {WirePacket(e, seq, NoAckHeader.ack, NoAckHeader.ackBits, g.entries)} ELSE net
        /\ hist' = [hist EXCEPT !.unacked = IF failed \/ e # "A" THEN @ ELSE @ \cup {seq}]
        /\ out' = GenerateResult(e, seq, maxPacketBytes, allocOk, g, ~failed, bytes)
        /\ UNCHANGED <<blocks, msgs, sentLog, rcvLog>>

\* a GeneratePacket that returns false when WritePacket writes nothing
GeneratePacketStrict(e, seq, maxPacketBytes, allocOk, send) ==
    \E g \in {GatherChannelData(chan[e], 0, seq, InitialBits(maxPacketBytes), <<>>, <<>>)} :
    LET bytes == WritePacket(g.entries, maxPacketBytes)
        failed == (Len(g.entries) > 0 /\ ~allocOk) \/ bytes = 0
    IN  /\ chan' = [chan EXCEPT ![e] = g.chs]
        /\ net' = IF ~failed /\ send /\ Cardinality(net) < MaxNet
                  THEN net \cup {WirePacket(e, seq, NoAckHeader.ack, NoAckHeader.ackBits,
                                            g.entries)}
                  ELSE net
        /\ hist' = [hist EXCEPT !.unacked = IF failed \/ e # "A" THEN @ ELSE @ \cup {seq}]
        /\ out' = GenerateResult(e, seq, maxPacketBytes, allocOk, g, ~failed, bytes)
        /\ UNCHANGED <<blocks, msgs, conn, sentLog, rcvLog>>

\* Connection::GeneratePacket( context, packetSequence, packetData, maxPacketBytes, packetBytes )
GeneratePacket(e, seq, maxPacketBytes, allocOk, send) ==
    \E g \in {GatherChannelData(chan[e], 0, seq, InitialBits(maxPacketBytes), <<>>, <<>>)} :
    LET failed == Len(g.entries) > 0 /\ ~allocOk
        bytes == WritePacket(g.entries, maxPacketBytes)
    IN  /\ chan' = [chan EXCEPT ![e] = g.chs]
        /\ net' = IF ~failed /\ bytes > 0 /\ send /\ Cardinality(net) < MaxNet
                  THEN net \cup {WirePacket(e, seq, NoAckHeader.ack, NoAckHeader.ackBits, g.entries)} ELSE net
        /\ hist' = [hist EXCEPT !.unacked = IF failed \/ e # "A" THEN @ ELSE @ \cup {seq}]
        /\ out' = GenerateResult(e, seq, maxPacketBytes, allocOk, g, ~failed, bytes)
        /\ UNCHANGED <<blocks, msgs, conn, sentLog, rcvLog>>

\* Connection::ProcessPacket( context, packetSequence, packetData, packetBytes ):
\* "todo: deserialize packet", returns true
ProcessPacket(e, p, again) ==
    /\ p \in net
    /\ p.to = e
    /\ net' = IF again THEN net ELSE net \ {p}
    /\ hist' = [hist EXCEPT !.newest = NewestOf(@, p.seq)]
    /\ out' = [op |-> "ProcessPacket", p |-> p, result |-> TRUE,
               stale |-> StaleFor(hist.newest, p.seq),
               dup |-> out.op = "ProcessPacket" /\ out.p = p,
               staleCounted |-> FALSE,
               changed |-> FALSE,
               receivableChanged |-> FALSE]
    /\ UNCHANGED <<blocks, msgs, chan, conn, sentLog, rcvLog>>

\* each channel's ProcessAck for one acked sequence
RECURSIVE AckChannels(_, _, _)
AckChannels(chs, c, seq) ==
    IF c >= NumChannels THEN chs
    ELSE AckChannels([chs EXCEPT ![c] = ChannelProcessAck(@, c, seq)], c + 1, seq)

RECURSIVE AckAll(_, _)
AckAll(chs, acks) ==
    IF acks = <<>> THEN chs ELSE AckAll(AckChannels(chs, 0, Head(acks)), Tail(acks))

\* every ProcessAck notification of the call was for a packet sent and not yet acked
RECURSIVE AcksFresh(_, _)
AcksFresh(unacked, acks) ==
    IF acks = <<>> THEN TRUE
    ELSE Head(acks) \in unacked /\ AcksFresh(unacked \ {Head(acks)}, Tail(acks))

AckedSet(acks) == {acks[k] : k \in 1..Len(acks)}

\* Connection::ProcessAcks( acks, numAcks )
ProcessAcks(e, acks) ==
    /\ chan' = [chan EXCEPT ![e] = AckAll(@, acks)]
    /\ hist' = [hist EXCEPT !.unacked = @ \ AckedSet(acks)]
    /\ out' = [op |-> "ProcessAcks", acks |-> acks,
               fresh |-> AcksFresh(hist.unacked, acks)]
    /\ UNCHANGED <<blocks, msgs, conn, net, sentLog, rcvLog>>

\* Connection::AdvanceTime( time ): forwards to each channel; "todo: channel error"
AdvanceTime(e, dt) ==
    /\ chan' = [chan EXCEPT ![e] = [c \in Channels |-> ChannelAdvanceTime(@[c], c, dt)]]
    /\ hist' = [hist EXCEPT !.errorSeen = @ \/ (e = "A" /\ \E c \in Channels : chan[e][c].error)]
    /\ out' = [op |-> "Other"]
    /\ UNCHANGED <<blocks, msgs, conn, net, sentLog, rcvLog>>

\* Connection::Reset: resets each channel; "//m_error = CONNECTION_ERROR_NONE"
Reset(e) ==
    /\ chan' = [chan EXCEPT ![e] = [c \in Channels |-> ChannelReset(@[c], c)]]
    /\ hist' = [hist EXCEPT !.unacked = IF e = "A" THEN {} ELSE @,
                            !.errorSeen = IF e = "A" THEN FALSE ELSE @,
                            !.newest = IF e = "B" THEN -1 ELSE @]
    /\ out' = [op |-> "Other"]
    /\ UNCHANGED <<blocks, msgs, conn, net, sentLog, rcvLog>>

ConnInit ==
    [error |-> "NONE", sentPackets |-> SBInit, receivedPackets |-> SBInit,
     generated |-> 0, processed |-> 0, stale |-> 0, acked |-> 0]

HistInit ==
    [resets |-> 0,       \* calls of Reset on the connections of the old code
     unacked |-> {},      \* sequences of the packets "A" generated and got no ack for
     errorSeen |-> FALSE, \* AdvanceTime ran on "A" while one of its channels reported an error
     newest |-> -1,       \* the newest sequence "B" was handed by ProcessPacket
     reordered |-> FALSE, \* a connection of the old code accepted a packet older than one it had
     resetOf |-> "none",  \* the connection of the old code Reset was last called on
     resetFrom |-> "NONE", \* the error that connection held when Reset was called
     fragsSeen |-> {},    \* <<messageId, fragmentId>> of the fragments "B" was handed
     placed |-> <<>>]     \* the block messages put in the receive queue of "B", in order,
                          \* each with the id of the fragment that completed it

Init ==
    /\ blocks = BlocksInit
    /\ msgs = [h \in Handles |-> NoMessage]
    /\ chan = [e \in Endpoints |-> [c \in Channels |-> ChannelInit(c)]]
    /\ conn = [e \in Endpoints |-> ConnInit]
    /\ net = {}
    /\ sentLog = [c \in Channels |-> <<>>]
    /\ rcvLog = [c \in Channels |-> <<>>]
    /\ hist = HistInit
    /\ out = [op |-> "Init"]

AckInputs == {<<a>> : a \in LiveSeqs} \cup {<<a, b>> : a \in LiveSeqs, b \in LiveSeqs}

\* The compiled connection as a sender: every input of GeneratePacket and ProcessAcks
Next ==
    \/ \E c \in Channels, body \in BodySizes : SendMessage("A", c, body)
    \/ ChannelFault("A", 0)
    \/ \E seq \in LiveSeqs, size \in PacketSizes, allocOk \in BOOLEAN :
           GeneratePacket("A", seq, size, allocOk, FALSE)
    \/ \E acks \in AckInputs : ProcessAcks("A", acks)
    \/ \E dt \in {0, 1} : AdvanceTime("A", dt)
    \/ Reset("A")

Spec == Init /\ [][Next]_vars

\* The compiled connection and its peer over a transport that loses, repeats and
\* (with the caller's sequence numbers) reorders packets
LinkPacketSize == 64

LinkSend == \E c \in Channels : SendMessage("A", c, 8)
LinkGenerate == \E seq \in LiveSeqs : GeneratePacket("A", seq, LinkPacketSize, TRUE, TRUE)
LinkProcess == \E p \in net, again \in BOOLEAN : ProcessPacket("B", p, again)
LinkDrop == \E p \in net : Drop(p)
LinkAcks == \E seq \in LiveSeqs : ProcessAcks("A", <<seq>>)
LinkReceive == \E c \in Channels : ReceiveMessage("B", c)
LinkTick == \E e \in Endpoints : AdvanceTime(e, 1)
LinkReset == Reset("B")
LinkReply == \E seq \in LiveSeqs : GeneratePacket("B", seq, LinkPacketSize, TRUE, FALSE)

LinkTraffic ==
    \/ LinkSend
    \/ LinkGenerate
    \/ LinkProcess
    \/ LinkDrop
    \/ LinkAcks
    \/ LinkReceive
    \/ LinkTick

LinkNext ==
    \/ LinkSend
    \/ LinkGenerate
    \/ LinkProcess
    \/ LinkDrop
    \/ LinkAcks
    \/ LinkReceive
    \/ LinkTick
    \/ LinkReset
    \/ LinkReply

LinkSpec == Init /\ [][LinkNext]_vars

\* Both sides tick for ever (AdvanceTime, GeneratePacket, ReceiveMessage), acks keep
\* arriving, and the transport does not drop every packet: a packet that is in flight
\* again and again is handed to ProcessPacket.  Nobody calls Reset.
FairLinkSpec ==
    /\ Init
    /\ [][LinkTraffic]_vars
    /\ WF_vars(LinkGenerate)
    /\ WF_vars(LinkTick)
    /\ WF_vars(LinkAcks)
    /\ WF_vars(LinkReceive)
    /\ SF_vars(LinkProcess)

\* MessageFactory alone
MsgNext ==
    \/ \E h \in Handles : Create(h)
    \/ \E h \in Handles : AddRef(h)
    \/ \E h \in Handles : Release(h)

SpecMsg == Init /\ [][MsgNext]_vars

BlockNext ==
    \/ \E m \in BlockMessages : NewBlockMessage(m)
    \/ \E m \in BlockMessages, b \in Buffers, blockSize \in BlockSizes :
          CallAttachBlock(m, b, blockSize)
    \/ \E m \in BlockMessages : CallDetachBlock(m)
    \/ \E m \in BlockMessages : DestroyBlockMessage(m)

SpecBlock == Init /\ [][BlockNext]_vars

-----------------------------------------------------------------------------
(* The Connection of the "#if 0 // old stuff" half of yojimbo_connection.cpp:
   sequence numbers, acks and the error state are kept by the connection *)

MaxOldNet == 2
MaxResets == 1
OldPacketSize == 64              \* connectionConfig.maxPacketSize
AckBitsWidth == 32

SentEntry(seq) == [valid |-> TRUE, seq |-> seq, acked |-> FALSE]

\* GenerateAckBits( receivedPackets, ack, ack_bits ): ack is the newest sequence
\* received, bit i is set iff ack - i is in receivedPackets
GenerateAck(sb) == (sb.sequence - 1) % SeqMod
GenerateAckBits(sb) ==
    {i \in 0..(AckBitsWidth - 1) : SBFind(sb, (GenerateAck(sb) - i) % SeqMod)}

\* Connection::InsertAckPacketEntry( sequence ): entry->acked = 0
InsertAckPacketEntry(sb, sequence) == SBInsert(sb, sequence, SentEntry(sequence))

\* a round of the loop of ProcessAcks that writes the bit into the entry it finds:
\* packetData->acked = ack_bits & 1
ProcessAckBitOverwrite(cn, chs, sequence, bit) ==
    LET slot == sequence % SlidingWindowSize
        found == SBFind(cn.sentPackets, sequence)
        fresh == bit /\ found /\ ~cn.sentPackets.entries[slot].acked
        marked == IF found THEN [cn EXCEPT !.sentPackets.entries[slot].acked = bit] ELSE cn
    IN  IF fresh THEN [conn |-> [marked EXCEPT !.acked = @ + 1],
                       chs |-> AckChannels(chs, 0, sequence)]
        ELSE [conn |-> marked, chs |-> chs]

\* one round of the loop of Connection::ProcessAcks( ack, ack_bits ), with
\* Connection::PacketAcked( sequence ) for an entry found and not yet acked
ProcessAckBit(cn, chs, sequence, bit) ==
    LET slot == sequence % SlidingWindowSize
    IN  IF bit /\ SBFind(cn.sentPackets, sequence) /\ ~cn.sentPackets.entries[slot].acked
        THEN [conn |-> [cn EXCEPT !.sentPackets.entries[slot].acked = TRUE,
                                  !.acked = @ + 1],
              chs |-> AckChannels(chs, 0, sequence)]
        ELSE [conn |-> cn, chs |-> chs]

\* Connection::ProcessAcks( ack, ack_bits )
RECURSIVE ProcessAckBits(_, _, _, _, _)
ProcessAckBits(cn, chs, ack, ackBits, i) ==
    IF i >= AckBitsWidth THEN [conn |-> cn, chs |-> chs]
    ELSE CHOOSE done \in
             {ProcessAckBits(r.conn, r.chs, ack, ackBits, i + 1) :
                 r \in {ProcessAckBit(cn, chs, (ack - i) % SeqMod, i \in ackBits)}} : TRUE

\* the loop of ProcessPacket over the channel entries of the packet
RECURSIVE ProcessEntries(_, _)
ProcessEntries(chs, entries) ==
    IF entries = <<>> THEN chs
    ELSE LET entry == Head(entries)
         IN  ProcessEntries(
                 [chs EXCEPT ![entry.channelId] =
                     IF entry.blockMessage THEN RelProcessFragment(@, entry.messages[1])
                     ELSE ChannelProcessPacketData(@, entry.channelId, entry.messages)],
                 Tail(entries))

\* the loop of AdvanceTime: it stops at the first channel that reports an error
RECURSIVE AdvanceChannels(_, _, _)
AdvanceChannels(chs, c, dt) ==
    IF c >= NumChannels THEN [chs |-> chs, error |-> FALSE]
    ELSE LET advanced == [chs EXCEPT ![c] = ChannelAdvanceTime(@, c, dt)]
         IN  IF advanced[c].error THEN [chs |-> advanced, error |-> TRUE]
             ELSE AdvanceChannels(advanced, c + 1, dt)

\* ConnectionPacket * Connection::GeneratePacket()
OldGeneratePacket(e, packetOk, allocOk) ==
    /\ conn[e].sentPackets.sequence < MaxOldPackets
    /\ IF conn[e].error # "NONE" \/ ~packetOk
       THEN UNCHANGED vars
       ELSE \E sequence \in {conn[e].sentPackets.sequence} :
            \E g \in {GatherChannelData(chan[e], 0, sequence,
                                        InitialBits(OldPacketSize), <<>>, <<>>)} :
            LET failed == Len(g.entries) > 0 /\ ~allocOk
                packet == WirePacket(e, sequence,
                                     GenerateAck(conn[e].receivedPackets),
                                     GenerateAckBits(conn[e].receivedPackets), g.entries)
            IN  /\ conn' = [conn EXCEPT
                              ![e].sentPackets = InsertAckPacketEntry(@, sequence),
                              ![e].error = IF failed THEN "OUT_OF_MEMORY" ELSE @,
                              ![e].generated = IF failed THEN @ ELSE @ + 1]
                /\ chan' = [chan EXCEPT ![e] = g.chs]
                /\ net' = IF ~failed /\ Cardinality(net) < MaxOldNet
                          THEN net \cup {packet} ELSE net
                /\ UNCHANGED <<blocks, msgs, sentLog, rcvLog, hist, out>>

\* bool Connection::ProcessPacket( ConnectionPacket * packet ); the transport hands
\* over the packets in flight in any order
OldProcessPacket(e, p) ==
    /\ p \in net
    /\ p.to = e
    /\ net' = net \ {p}
    /\ hist' = [hist EXCEPT !.reordered =
                   @ \/ (/\ conn[e].error = "NONE"
                         /\ SBCanInsert(conn[e].receivedPackets, p.seq)
                         /\ ~SequenceGreaterThan((p.seq + 1) % SeqMod,
                                                 conn[e].receivedPackets.sequence))]
    /\ IF conn[e].error # "NONE"
       THEN UNCHANGED <<chan, conn>>
       ELSE IF ~SBCanInsert(conn[e].receivedPackets, p.seq)
       THEN /\ conn' = [conn EXCEPT ![e].stale = @ + 1]
            /\ UNCHANGED chan
       ELSE \E r \in {ProcessAckBits(
                         [conn[e] EXCEPT
                             !.receivedPackets = SBInsert(@, p.seq, SentEntry(p.seq)),
                             !.processed = @ + 1],
                         chan[e], p.ack, p.ackBits, 0)} :
            /\ conn' = [conn EXCEPT ![e] = r.conn]
            /\ chan' = [chan EXCEPT ![e] = ProcessEntries(r.chs, p.entries)]
    /\ UNCHANGED <<blocks, msgs, sentLog, rcvLog, out>>

\* void Connection::AdvanceTime( double time ) of the old code
OldAdvanceTime(e, dt) ==
    \E r \in {AdvanceChannels(chan[e], 0, dt)} :
        /\ chan' = [chan EXCEPT ![e] = r.chs]
        /\ conn' = [conn EXCEPT ![e].error = IF r.error THEN "CHANNEL" ELSE @]
        /\ UNCHANGED <<blocks, msgs, net, sentLog, rcvLog, hist, out>>

\* a Reset that resets the channels only, as the compiled Connection::Reset does
OldResetChannelsOnly(e) ==
    /\ hist.resets < MaxResets
    /\ chan' = [chan EXCEPT ![e] = [c \in Channels |-> ChannelReset(@[c], c)]]
    /\ hist' = [hist EXCEPT !.resets = @ + 1, !.resetOf = e,
                            !.resetFrom = conn[e].error]
    /\ UNCHANGED <<blocks, msgs, conn, net, sentLog, rcvLog, out>>

\* void Connection::Reset() of the old code
OldReset(e) ==
    /\ hist.resets < MaxResets
    /\ chan' = [chan EXCEPT ![e] = [c \in Channels |-> ChannelReset(@[c], c)]]
    /\ conn' = [conn EXCEPT ![e] = ConnInit]
    /\ hist' = [hist EXCEPT !.resets = @ + 1, !.resetOf = e,
                            !.resetFrom = conn[e].error]
    /\ UNCHANGED <<blocks, msgs, net, sentLog, rcvLog, out>>

OldNext ==
    \/ SendMessage("A", 0, 8)
    \/ \E e \in Endpoints, packetOk \in BOOLEAN, allocOk \in BOOLEAN :
          OldGeneratePacket(e, packetOk, allocOk)
    \/ \E p \in net : OldProcessPacket(p.to, p)
    \/ \E p \in net : Drop(p)
    \/ ReceiveMessage("B", 0)
    \/ \E e \in Endpoints : OldAdvanceTime(e, 1)
    \/ \E e \in Endpoints : OldReset(e)

SpecOld == Init /\ [][OldNext]_vars

-----------------------------------------------------------------------------
(* Two reliable-ordered channels and the transport between them: the channel
   operations of section 4.3, with plain and block messages *)

MaxChanSends == 3
MaxChanPackets == 4
MaxChanNet == 2

\* the buffers of the messages sent: <<>> is a plain message
BlockContents == {<<>>, <<7, 9>>}

\* what the application sees of a message: its fields and its block
Delivered(slot) == [payload |-> slot.payload, block |-> slot.block]

\* Connection::CanSendMsg and Connection::SendMsg( message, channelId ) on channel 0;
\* SendMsg is void. A call with no free slot changes nothing.
ChanSendMsg(body, block) ==
    LET ch == chan["A"][0]
        ok == RelCanSend(ch)
        payload == Len(sentLog[0]) + 1
    IN  /\ Len(sentLog[0]) < MaxChanSends
        /\ chan' = IF ok THEN [chan EXCEPT !["A"][0] = RelSendMsg(@, payload, body, block)]
                   ELSE chan
        /\ sentLog' = IF ok
                      THEN [sentLog EXCEPT ![0] =
                               Append(@, [payload |-> payload, block |-> block])]
                      ELSE sentLog
        /\ out' = [op |-> "SendMsg", canSend |-> ok, returned |-> "void",
                   unchanged |-> chan'["A"][0] = ch]
        /\ UNCHANGED <<blocks, msgs, conn, net, rcvLog, hist>>

\* GetPacketData( packetData, packetSequence, availableBits ) on the sender, the
\* data handed to the transport as one datagram
ChanGetPacketData ==
    \E seq \in {conn["A"].generated} :
    \E r \in {RelGetPacketData(chan["A"][0], 0, seq, InitialBits(OldPacketSize))} :
        /\ seq < MaxChanPackets
        /\ chan' = [chan EXCEPT !["A"][0] = r.ch]
        /\ conn' = [conn EXCEPT !["A"].generated = @ + 1]
        /\ net' = IF r.bits > 0 /\ Cardinality(net) < MaxChanNet
                  THEN net \cup {WirePacket("A", seq, 0, {},
                                     <<[channelId |-> 0, blockMessage |-> r.blockMessage,
                                        messages |-> r.data]>>)}
                  ELSE net
        /\ out' = [op |-> "Other"]
        /\ UNCHANGED <<blocks, msgs, sentLog, rcvLog, hist>>

\* ProcessPacketData( packetData, packetSequence ) on the receiver; the packet is
\* acknowledged to the sender. again: the transport delivers the datagram once more later.
ChanProcessPacketData(p, again) ==
    LET ch == chan["B"][0]
        after == ProcessEntries(chan["B"], p.entries)[0]
        entry == p.entries[1]
        f == entry.messages[1]
        placedNow == /\ entry.blockMessage
                     /\ after.receiveQueue[f.messageId % ReceiveQueueSize]
                           # ch.receiveQueue[f.messageId % ReceiveQueueSize]
        ack == WirePacket("B", p.seq, p.seq, {0}, <<>>)
        rest == IF again THEN net ELSE net \ {p}
    IN  /\ p \in net
        /\ p.to = "B"
        /\ chan' = [chan EXCEPT !["B"][0] = after]
        /\ net' = IF Cardinality(rest) < MaxChanNet THEN rest \cup {ack} ELSE rest
        /\ hist' = [hist EXCEPT
                       !.fragsSeen = IF entry.blockMessage
                                     THEN @ \cup {<<f.messageId, f.fragmentId>>} ELSE @,
                       !.placed = IF placedNow
                                  THEN Append(@, Delivered(
                                           after.receiveQueue[f.messageId % ReceiveQueueSize])
                                         @@ [last |-> f.fragmentId])
                                  ELSE @]
        /\ out' = [op |-> "Other"]
        /\ UNCHANGED <<blocks, msgs, conn, sentLog, rcvLog>>

\* ProcessAck( packetSequence ) on the sender, for a packet the receiver processed
ChanProcessAck(p) ==
    /\ p \in net
    /\ p.to = "A"
    /\ chan' = [chan EXCEPT !["A"][0] = RelProcessAck(@, p.ack)]
    /\ net' = net \ {p}
    /\ out' = [op |-> "Other"]
    /\ UNCHANGED <<blocks, msgs, conn, sentLog, rcvLog, hist>>

\* ReceiveMessage on the receiver
ChanReceiveMsg ==
    LET ch == chan["B"][0]
    IN  /\ RelCanReceive(ch)
        /\ rcvLog' = [rcvLog EXCEPT ![0] =
                         Append(@, Delivered(ch.receiveQueue[ch.receiveMessageId
                                                               % ReceiveQueueSize]))]
        /\ chan' = [chan EXCEPT !["B"][0] = RelReceive(@)]
        /\ out' = [op |-> "Other"]
        /\ UNCHANGED <<blocks, msgs, conn, net, sentLog, hist>>

\* AdvanceTime( time ) on the sender
ChanAdvanceTime ==
    /\ chan' = [chan EXCEPT !["A"][0] = RelAdvanceTime(@, 1)]
    /\ out' = [op |-> "Other"]
    /\ UNCHANGED <<blocks, msgs, conn, net, sentLog, rcvLog, hist>>

ChanNext ==
    \/ \E block \in BlockContents : ChanSendMsg(8, block)
    \/ ChanGetPacketData
    \/ \E p \in net, again \in BOOLEAN : ChanProcessPacketData(p, again)
    \/ \E p \in net : ChanProcessAck(p)
    \/ \E p \in net : Drop(p)
    \/ ChanReceiveMsg
    \/ ChanAdvanceTime

SpecChannel == Init /\ [][ChanNext]_vars

-----------------------------------------------------------------------------
(* Two unreliable-unordered channels and the transport between them: the channel
   operations of section 4.2 on channel 1 *)

MaxUnrelSends == 5
MaxUnrelPackets == 3
MaxUnrelNet == 1
MaxUnrelReceives == 2

\* SendMessage( message ) on the sender's channel 1; never refused
UnrelSendMsg(body) ==
    LET payload == Len(sentLog[1]) + 1
    IN  /\ Len(sentLog[1]) < MaxUnrelSends
        /\ chan' = [chan EXCEPT !["A"][1] = UnrelSend(@, payload, body)]
        /\ sentLog' = [sentLog EXCEPT ![1] = Append(@, payload)]
        /\ out' = [op |-> "Other"]
        /\ UNCHANGED <<blocks, msgs, conn, net, rcvLog, hist>>

\* GetPacketData( packetData, packetSequence, availableBits ) on the sender, the
\* data handed to the transport as one datagram
UnrelGetData ==
    \E seq \in {conn["A"].generated} :
    \E r \in {UnrelGetPacketData(chan["A"][1], 1, seq, InitialBits(OldPacketSize))} :
        /\ seq < MaxUnrelPackets
        /\ chan' = [chan EXCEPT !["A"][1] = r.ch]
        /\ conn' = [conn EXCEPT !["A"].generated = @ + 1]
        /\ net' = IF r.bits > 0 /\ Cardinality(net) < MaxUnrelNet
                  THEN net \cup {WirePacket("A", seq, 0, {},
                                     <<[channelId |-> 1, blockMessage |-> FALSE,
                                        messages |-> r.data]>>)}
                  ELSE net
        /\ out' = [op |-> "Other"]
        /\ UNCHANGED <<blocks, msgs, sentLog, rcvLog, hist>>

\* ProcessPacketData( packetData, packetSequence ) on the receiver's channel 1.
\* again: the transport delivers the datagram once more later.
UnrelProcess(p, again) ==
    /\ p \in net
    /\ p.to = "B"
    /\ chan' = [chan EXCEPT !["B"][1] = UnrelProcessPacketData(@, p.entries[1].messages)]
    /\ net' = IF again THEN net ELSE net \ {p}
    /\ out' = [op |-> "Other"]
    /\ UNCHANGED <<blocks, msgs, conn, sentLog, rcvLog, hist>>

\* ReceiveMessage on the receiver's channel 1
UnrelReceiveMsg ==
    /\ UnrelCanReceive(chan["B"][1])
    /\ Len(rcvLog[1]) < MaxUnrelReceives
    /\ rcvLog' = [rcvLog EXCEPT ![1] = Append(@, UnrelReceived(chan["B"][1]))]
    /\ chan' = [chan EXCEPT !["B"][1] = UnrelReceive(@)]
    /\ out' = [op |-> "Other"]
    /\ UNCHANGED <<blocks, msgs, conn, net, sentLog, hist>>

UnrelNext ==
    \/ UnrelSendMsg(8)
    \/ UnrelGetData
    \/ \E p \in net, again \in BOOLEAN : UnrelProcess(p, again)
    \/ \E p \in net : Drop(p)
    \/ UnrelReceiveMsg

SpecUnrel == Init /\ [][UnrelNext]_vars

-----------------------------------------------------------------------------
(* The bits of a ConnectionPacket: ConnectionPacket::Serialize through a WriteStream
   and a ReadStream (yojimbo_connection.cpp, lines 136-168 and 232-253) *)

\* the values the fields of the model take are below 2^ValueBits
ValueBits == 30

\* WriteStream serializeBits: the n low-order bits of value, lowest first
IntBits(value, n) ==
    [i \in 1..n |-> IF i > ValueBits THEN 0 ELSE (value \div (2 ^ (i - 1))) % 2]

RECURSIVE LowValue(_, _)
LowValue(bits, i) ==
    IF i > Len(bits) \/ i > ValueBits THEN 0
    ELSE bits[i] * (2 ^ (i - 1)) + LowValue(bits, i + 1)

\* the value of bits read lowest first; -1 for a value no field of the model takes
BitsValue(bits) ==
    IF \E i \in (ValueBits + 1)..Len(bits) : bits[i] = 1 THEN -1 ELSE LowValue(bits, 1)

\* serializeAlign: zero bits up to the next byte boundary
AlignPad(length) == [i \in 1..((8 - (length % 8)) % 8) |-> 0]

\* the magic serializeCheck writes, lowest bit first
SerializeCheckMagic == [i \in 1..SerializeCheckBits |-> IF i % 3 = 0 THEN 1 ELSE 0]

\* the message types of the factory: the type index fixes the size of the body
TypeOf(body) == IF body = 8 THEN 0 ELSE 1
BodyOf(type) == IF type = 0 THEN 8 ELSE 100
NumTypes == 2

\* one message written: id (reliable only), type index, body
WriteMessage(stream, c, m) ==
    stream \o (IF IsReliable(c) THEN IntBits(m.id, 16) ELSE <<>>)
           \o IntBits(TypeOf(m.body), MessageTypeBits)
           \o IntBits(m.payload, m.body)

RECURSIVE WriteMessages(_, _, _)
WriteMessages(stream, c, messages) ==
    IF messages = <<>> THEN stream
    ELSE WriteMessages(WriteMessage(stream, c, Head(messages)), c, Tail(messages))

\* a BlockFragmentPayload written: messageId, fragmentId, numFragments, fragmentBytes,
\* the fragment bytes after alignment, and on fragment zero the header message
WriteFragment(stream, f) ==
    LET head == stream \o IntBits(f.messageId, 16)
                       \o IntBits(f.fragmentId, BitsFor(MaxFragments - 1))
                       \o IntBits(f.numFragments, BitsFor(MaxFragments))
                       \o IntBits(BlockFragmentSize, BitsFor(BlockFragmentSize))
        bytes == head \o AlignPad(Len(head)) \o IntBits(f.data, 8 * BlockFragmentSize)
    IN  IF f.fragmentId = 0
        THEN bytes \o IntBits(TypeOf(f.body), MessageTypeBits) \o IntBits(f.payload, f.body)
        ELSE bytes

\* ChannelPacketData::SerializeInternal, writing: channelId, blockMessage, the payload
WriteEntry(stream, entry) ==
    LET head == stream \o IntBits(entry.channelId, ChannelIdBits)
                       \o <<IF entry.blockMessage THEN 1 ELSE 0>>
    IN  IF entry.blockMessage THEN WriteFragment(head, entry.messages[1])
        ELSE WriteMessages(head \o IntBits(Len(entry.messages), NumMessagesBits),
                           entry.channelId, entry.messages)

RECURSIVE WriteEntries(_, _)
WriteEntries(stream, entries) ==
    IF entries = <<>> THEN stream
    ELSE WriteEntries(WriteEntry(stream, Head(entries)), Tail(entries))

\* a Serialize that writes numChannelEntries in the bits of [0, numChannels - 1]
SerializeWriteNarrow(entries) ==
    WriteEntries(IntBits(Len(entries), BitsFor(NumChannels - 1)), entries)

\* ConnectionPacket::Serialize on a WriteStream:
\* serialize_int( stream, numChannelEntries, 0, numChannels ), then each entry
SerializeWrite(entries) ==
    WriteEntries(IntBits(Len(entries), BitsFor(NumChannels)), entries)

\* WritePacket, the bytes: Serialize, SerializeCheck, Flush; nothing when the stream
\* runs past the buffer
WritePacketBits(entries, bufferSize) ==
    LET body == SerializeWrite(entries)
        bits == body \o AlignPad(Len(body)) \o SerializeCheckMagic
    IN  IF Len(bits) > bufferSize * 8 THEN <<>> ELSE bits

\* ReadStream serializeBits: n bits at pos; a read past the end fails the stream
ReadInt(bits, pos, n) ==
    IF pos + n > Len(bits) THEN [ok |-> FALSE, pos |-> pos, value |-> 0]
    ELSE [ok |-> TRUE, pos |-> pos + n, value |-> BitsValue(SubSeq(bits, pos + 1, pos + n))]

AlignedPos(pos) == pos + ((8 - (pos % 8)) % 8)

ReadFailed == [ok |-> FALSE, pos |-> 0, value |-> <<>>]

\* one message read: the type index must be a type of the factory
ReadMessage(bits, pos, c) ==
    LET id == IF IsReliable(c) THEN ReadInt(bits, pos, 16)
              ELSE [ok |-> TRUE, pos |-> pos, value |-> 0]
        type == ReadInt(bits, id.pos, MessageTypeBits)
        body == ReadInt(bits, type.pos, BodyOf(type.value))
    IN  IF ~id.ok \/ ~type.ok \/ type.value >= NumTypes \/ ~body.ok THEN ReadFailed
        ELSE [ok |-> TRUE, pos |-> body.pos,
              value |-> [id |-> id.value, payload |-> body.value,
                         body |-> BodyOf(type.value)]]

RECURSIVE ReadMessages(_, _, _, _, _)
ReadMessages(bits, pos, c, count, messages) ==
    IF count = 0 THEN [ok |-> TRUE, pos |-> pos, value |-> messages]
    ELSE LET m == ReadMessage(bits, pos, c)
         IN  IF ~m.ok THEN ReadFailed
             ELSE ReadMessages(bits, m.pos, c, count - 1, Append(messages, m.value))

\* a BlockFragmentPayload read
ReadFragment(bits, pos) ==
    LET messageId == ReadInt(bits, pos, 16)
        fragmentId == ReadInt(bits, messageId.pos, BitsFor(MaxFragments - 1))
        numFragments == ReadInt(bits, fragmentId.pos, BitsFor(MaxFragments))
        fragmentBytes == ReadInt(bits, numFragments.pos, BitsFor(BlockFragmentSize))
        data == ReadInt(bits, AlignedPos(fragmentBytes.pos), 8 * BlockFragmentSize)
        type == ReadInt(bits, data.pos, MessageTypeBits)
        body == ReadInt(bits, type.pos, BodyOf(type.value))
        fragment == [messageId |-> messageId.value, fragmentId |-> fragmentId.value,
                     numFragments |-> numFragments.value, data |-> data.value,
                     payload |-> 0, body |-> 0]
    IN  IF \/ ~messageId.ok \/ ~fragmentId.ok \/ ~numFragments.ok \/ ~fragmentBytes.ok
           \/ ~data.ok
           \/ numFragments.value \notin 1..MaxFragments
           \/ fragmentId.value >= numFragments.value
           \/ fragmentBytes.value # BlockFragmentSize
        THEN ReadFailed
        ELSE IF fragmentId.value # 0
        THEN [ok |-> TRUE, pos |-> data.pos, value |-> <<fragment>>]
        ELSE IF ~type.ok \/ type.value >= NumTypes \/ ~body.ok THEN ReadFailed
        ELSE [ok |-> TRUE, pos |-> body.pos,
              value |-> <<[fragment EXCEPT !.payload = body.value,
                                           !.body = BodyOf(type.value)]>>]

\* ChannelPacketData::SerializeInternal, reading
ReadEntry(bits, pos) ==
    LET channelId == ReadInt(bits, pos, ChannelIdBits)
        blockMessage == ReadInt(bits, channelId.pos, 1)
        numMessages == ReadInt(bits, blockMessage.pos, NumMessagesBits)
        payload == IF blockMessage.value = 1 THEN ReadFragment(bits, blockMessage.pos)
                   ELSE IF ~numMessages.ok \/ numMessages.value > MaxMessagesPerPacket
                   THEN ReadFailed
                   ELSE ReadMessages(bits, numMessages.pos, channelId.value,
                                     numMessages.value, <<>>)
    IN  IF ~channelId.ok \/ channelId.value >= NumChannels \/ ~blockMessage.ok
           \/ ~payload.ok
        THEN ReadFailed
        ELSE [ok |-> TRUE, pos |-> payload.pos,
              value |-> [channelId |-> channelId.value,
                         blockMessage |-> blockMessage.value = 1,
                         messages |-> payload.value]]

RECURSIVE ReadEntries(_, _, _, _)
ReadEntries(bits, pos, count, entries) ==
    IF count = 0 THEN [ok |-> TRUE, pos |-> pos, value |-> entries]
    ELSE LET entry == ReadEntry(bits, pos)
         IN  IF ~entry.ok THEN ReadFailed
             ELSE ReadEntries(bits, entry.pos, count - 1, Append(entries, entry.value))

\* ConnectionPacket::Serialize on a ReadStream, then SerializeCheck:
\* serialize_int( numChannelEntries, 0, numChannels ), AllocateChannelData, each entry
ReadPacketBits(bits, allocOk) ==
    LET numChannelEntries == ReadInt(bits, 0, BitsFor(NumChannels))
        entries == ReadEntries(bits, numChannelEntries.pos, numChannelEntries.value, <<>>)
        check == ReadInt(bits, AlignedPos(entries.pos), SerializeCheckBits)
    IN  IF \/ ~numChannelEntries.ok
           \/ numChannelEntries.value > NumChannels
           \/ (numChannelEntries.value > 0 /\ ~allocOk)
        THEN [ok |-> FALSE, entries |-> <<>>]
        ELSE IF ~entries.ok \/ ~check.ok
                \/ check.value # BitsValue(SerializeCheckMagic)
        THEN [ok |-> FALSE, entries |-> <<>>]
        ELSE [ok |-> TRUE, entries |-> entries.value]

\* the channel entries a packet is made of: messages of either channel, a fragment
WireMessages(c) ==
    IF IsReliable(c)
    THEN {<<[id |-> 0, payload |-> 1, body |-> 8]>>,
          <<[id |-> 65535, payload |-> 255, body |-> 8],
            [id |-> 0, payload |-> 2, body |-> 100]>>}
    ELSE {<<[id |-> 0, payload |-> 3, body |-> 100]>>,
          <<[id |-> 0, payload |-> 1, body |-> 8], [id |-> 0, payload |-> 2, body |-> 8]>>}

WireFragments ==
    {[messageId |-> 1, fragmentId |-> 0, numFragments |-> 2, data |-> 7,
      payload |-> 3, body |-> 8],
     [messageId |-> 65535, fragmentId |-> 1, numFragments |-> 2, data |-> 255,
      payload |-> 0, body |-> 0]}

\* the messages of an entry are those of its channel's type
WireEntries ==
    {[channelId |-> c, blockMessage |-> FALSE, messages |-> ms] :
        c \in Channels, ms \in WireMessages(0) \cup WireMessages(1)}
    \cup {[channelId |-> 0, blockMessage |-> TRUE, messages |-> <<f>>] :
             f \in WireFragments}

WirePackets ==
    LET valid == {x \in WireEntries :
                     x.blockMessage \/ x.messages \in WireMessages(x.channelId)}
    IN  {<<>>} \cup {<<a>> : a \in valid} \cup {<<a, b>> : a \in valid, b \in valid}

WireBufferSizes == {4, 16, 64}

\* WritePacket of a packet into a buffer, and the ReadStream pass over those bytes
RoundTrip(entries, bufferSize, allocOk) ==
    \E bits \in {WritePacketBits(entries, bufferSize)} :
        /\ out' = [op |-> "RoundTrip", packet |-> entries, bufferSize |-> bufferSize,
                   allocOk |-> allocOk,
                   packetBytes |-> Len(bits) \div 8,
                   bits |-> Len(bits),
                   read |-> ReadPacketBits(bits, allocOk)]
        /\ UNCHANGED <<blocks, msgs, chan, conn, net, sentLog, rcvLog, hist>>

WireNext ==
    \E entries \in WirePackets, bufferSize \in WireBufferSizes, allocOk \in BOOLEAN :
        RoundTrip(entries, bufferSize, allocOk)

SpecWire == Init /\ [][WireNext]_vars

-----------------------------------------------------------------------------
(* The claims *)

IsPrefix(s, t) == Len(s) <= Len(t) /\ SubSeq(t, 1, Len(s)) = s

\* C1: every message accepted by SendMessage on the reliable-ordered channel is
\* eventually returned by the peer's ReceiveMessage, in the order sent, when both sides
\* keep ticking and the transport does not drop every packet.
ReliableDelivery ==
    \A i \in 1..MaxMsgs :
        (Len(sentLog[0]) >= i) ~> (Len(rcvLog[0]) >= i /\ rcvLog[0][i] = sentLog[0][i])

BudgetRespected ==
    (out.op = "GeneratePacket" /\ out.written) =>
        /\ out.packetBytes <= out.maxPacketBytes
        /\ InitialBits(out.maxPacketBytes) >= 0 => out.packetBytes * 8 = out.needed

BudgetWitness ==
    /\ out.op = "GeneratePacket"
    /\ out.written
    /\ out.numChannelEntries = NumChannels
    /\ out.packetBytes > 0
    /\ out.packetBytes * 8 = out.needed
    /\ InitialBits(out.maxPacketBytes) < PacketBudgetBits

\* C4: a message starts with refCount 1; while alive its refCount is at least 1 and
\* equals 1 + AddRefs - Releases; it is destroyed exactly when the Releases reach
\* 1 + AddRefs, and nothing is counted on it afterwards.
RefCountLifecycle ==
    \A h \in Handles :
        LET m == msgs[h]
        IN  /\ m.refCount >= 0
            /\ m.state = "alive" => m.refCount >= 1
            /\ m.state # "free" => m.refCount = 1 + m.addRefs - m.releases
            /\ m.state = "destroyed" <=> (m.state # "free" /\ m.releases = 1 + m.addRefs)

RefCountWitness ==
    \E h \in Handles : msgs[h].state = "destroyed" /\ msgs[h].addRefs >= 2

\* C5: every ProcessAck notification that ProcessAcks makes is for a packet that was
\* sent and not acked before, so a sent packet is notified at most once between Resets.
AckedAtMostOnce == out.op = "ProcessAcks" => out.fresh

\* C7: a packet older than the received-packets window makes ProcessPacket return
\* false and count a stale packet, and changes nothing else.
StaleDropped ==
    (out.op = "ProcessPacket" /\ out.stale) =>
        (~out.result /\ out.staleCounted /\ ~out.changed)

\* C8: processing a packet a second time in a row leaves what ReceiveMessage will
\* return unchanged, and the second processing is dropped as stale.
DuplicateDropped ==
    (out.op = "ProcessPacket" /\ out.dup) =>
        (~out.receivableChanged /\ ~out.result /\ out.staleCounted)

\* C9: once AdvanceTime has run while a channel reported an error, every
\* GeneratePacket is refused until Reset.
ErroredRefusesGenerate ==
    (out.op = "GeneratePacket" /\ hist.errorSeen) => ~out.result

\* C10: when the allocation of the channel entries fails, GeneratePacket returns
\* false and stores no packet; a call with a working allocator produces a packet, also
\* right after such a failure.
OutOfMemoryRecoverable ==
    out.op = "GeneratePacket" =>
        /\ (out.numChannelEntries > 0 /\ ~out.allocOk) => (~out.result /\ ~out.written)
        /\ out.allocOk =>
              /\ out.result
              /\ out.written
              /\ InitialBits(out.maxPacketBytes) >= 0 => out.packetBytes > 0

OutOfMemoryWitness ==
    /\ out.op = "GeneratePacket"
    /\ out.afterFailure
    /\ out.result
    /\ out.numChannelEntries > 0
    /\ out.packetBytes > 0

\* what the channels queried before the k-th took from the budget: bits plus the
\* channel header estimate for each that returned more than 0 bits
RECURSIVE TakenBefore(_, _)
TakenBefore(offers, k) ==
    IF k <= 1 THEN 0
    ELSE TakenBefore(offers, k - 1)
           + (IF offers[k - 1].bits > 0
              THEN offers[k - 1].bits + ConservativeChannelHeaderEstimate ELSE 0)

\* C19: GeneratePacket queries the channels in ascending channel id, and the budget
\* offered to channel k is maxPacketBytes*8 minus the packet header estimate minus, for
\* every earlier channel that returned more than 0 bits, its bits plus the channel
\* header estimate; a channel that returned 0 bits leaves the budget unchanged.
FirstChannelWins ==
    out.op = "GeneratePacket" =>
        /\ Len(out.offers) = NumChannels
        /\ \A k \in 1..Len(out.offers) :
              /\ out.offers[k].channelId = k - 1
              /\ out.offers[k].offered =
                     out.maxPacketBytes * 8 - ConservativeConnectionPacketHeaderEstimate
                       - TakenBefore(out.offers, k)

\* the first channel took bits and the second, offered the rest, took bits too
FirstChannelWinsWitness ==
    /\ out.op = "GeneratePacket"
    /\ out.offers[1].bits > 0
    /\ out.offers[2].offered < out.offers[1].offered
    /\ out.offers[2].offered > 0
    /\ out.offers[2].bits > 0

\* C20: the packet GeneratePacket assembles has exactly one channel entry for each
\* channel whose GetPacketData returned more than 0 bits and none for the others, in
\* ascending channel id order, and numChannelEntries is in [0, numChannels].
EntriesMatchData ==
    (out.op = "GeneratePacket" /\ out.written) =>
        LET ids == out.entryChannelIds
        IN  /\ out.numChannelEntries \in 0..NumChannels
            /\ out.numChannelEntries = Len(ids)
            /\ \A c \in Channels :
                  (\E i \in 1..Len(ids) : ids[i] = c)
                     <=> (\E k \in 1..Len(out.offers) :
                             out.offers[k].channelId = c /\ out.offers[k].bits > 0)
            /\ \A i, j \in 1..Len(ids) : i < j => ids[i] < ids[j]

\* only the second channel had data: its entry is the first entry of the packet
EntriesMatchDataWitness ==
    /\ out.op = "GeneratePacket"
    /\ out.written
    /\ out.offers[1].bits = 0
    /\ out.entryChannelIds = <<1>>

\* C12: when the packet GeneratePacket built is destroyed, every message reference in
\* its channel entries is released and the channel entry array is freed.
PacketDestructionReleases ==
    (out.op = "GeneratePacket" /\ out.written) =>
        /\ out.held \subseteq out.released
        /\ out.numChannelEntries > 0 => out.channelEntryFreed

\* C18: every message of the unreliable-unordered channel that went into a packet is
\* released once that packet is serialized.
UnreliableReleasedOnceSerialized ==
    (out.op = "GeneratePacket" /\ out.written) =>
        \A r \in out.held : ~IsReliable(r.channelId) => r \in out.released

UsedSlots(queue) == {i \in DOMAIN queue : queue[i].used}

\* C13: a reliable channel buffers at most sendQueueSize messages, all of them sent
\* and not yet acked, and holds at most receiveQueueSize received messages, all in the
\* receive window; its one send block is the block at the front of the send queue and
\* its one receive block is a message of the receive window that is not complete yet.
BoundedMemory ==
    \A e \in Endpoints :
        LET ch == chan[e][0]
            unacked == (ch.sendMessageId - ch.oldestUnackedMessageId) % SeqMod
        IN  /\ unacked <= SendQueueSize
            /\ Cardinality(UsedSlots(ch.sendQueue)) <= unacked
            /\ e = "A" => Len(sentLog[0]) - ch.oldestUnackedMessageId <= SendQueueSize
            /\ \A i \in UsedSlots(ch.sendQueue) :
                  /\ ch.sendQueue[i].id % SendQueueSize = i
                  /\ (ch.sendQueue[i].id - ch.oldestUnackedMessageId) % SeqMod < unacked
            /\ Cardinality(UsedSlots(ch.receiveQueue)) <= ReceiveQueueSize
            /\ \A i \in UsedSlots(ch.receiveQueue) :
                  /\ ch.receiveQueue[i].id % ReceiveQueueSize = i
                  /\ RelInWindow(ch, ch.receiveQueue[i].id)
            /\ ch.sendBlock.active =>
                  /\ ch.sendBlock.messageId = ch.oldestUnackedMessageId
                  /\ RelFrontIsBlock(ch)
                  /\ ch.sendBlock.numFragments \in 1..MaxFragments
                  /\ ch.sendBlock.acked # 0..(ch.sendBlock.numFragments - 1)
            /\ ch.receiveBlock.active =>
                  /\ RelInWindow(ch, ch.receiveBlock.messageId)
                  /\ ~ch.receiveQueue[ch.receiveBlock.messageId % ReceiveQueueSize].used
                  /\ ch.receiveBlock.numFragments \in 1..MaxFragments
                  /\ ch.receiveBlock.received # 0..(ch.receiveBlock.numFragments - 1)

\* the send queue is full with a block being sent, and the receiver holds a
\* received message and a block that is not complete
BoundedMemoryWitness ==
    /\ Cardinality(UsedSlots(chan["A"][0].sendQueue)) = SendQueueSize
    /\ chan["A"][0].sendBlock.active
    /\ chan["B"][0].receiveBlock.active
    /\ UsedSlots(chan["B"][0].receiveQueue) # {}

\* C14: a SendMsg issued when the slot at sendMessageId mod sendQueueSize is not free
\* returns false and leaves the channel's send state unchanged.
SendQueueFullReported ==
    (out.op = "SendMsg" /\ ~out.canSend) => (out.returned = "false" /\ out.unchanged)

AckHeaderNewest ==
    (out.op = "GeneratePacket" /\ out.written /\ out.from = "B" /\ hist.newest >= 0) =>
        /\ out.ack = hist.newest
        /\ 0 \in out.ackBits

ReturnReportsAllocation ==
    out.op = "GeneratePacket" =>
        /\ ~out.result <=> (out.numChannelEntries > 0 /\ ~out.allocOk)
        /\ Len(out.offers) = NumChannels
        /\ ~out.result => ~out.written
        /\ out.result =>
              /\ out.written
              /\ out.needed > out.maxPacketBytes * 8 => out.packetBytes = 0
              /\ out.needed <= out.maxPacketBytes * 8 => out.packetBytes * 8 = out.needed
              /\ (\A k \in 1..Len(out.offers) : out.offers[k].bits = 0) =>
                    out.numChannelEntries = 0

\* WritePacket could not fit the packet in the buffer: true is returned, packetBytes is 0
ReturnReportsAllocationWitness ==
    /\ out.op = "GeneratePacket"
    /\ out.result
    /\ out.needed > out.maxPacketBytes * 8
    /\ out.packetBytes = 0

\* C21: after a GeneratePacket that produced a packet, sentPackets of that connection
\* holds an entry, not acked, for the sequence the packet was generated with.
SentPacketRecorded ==
    (out.op = "GeneratePacket" /\ out.result /\ out.packetBytes > 0) =>
        \E seq \in LiveSeqs :
            /\ SBFind(conn[out.from].sentPackets, seq)
            /\ ~conn[out.from].sentPackets.entries[seq % SlidingWindowSize].acked

SendWindow ==
    LET ch == chan["A"][0]
        oldest == ch.oldestUnackedMessageId
    IN  /\ ~SequenceGreaterThan(oldest, ch.sendMessageId)
        /\ (ch.sendMessageId - oldest) % SeqMod <= SendQueueSize
        /\ ch.sendMessageId = Len(sentLog[0]) % SeqMod
        /\ \/ oldest = ch.sendMessageId
           \/ /\ ch.sendQueue[oldest % SendQueueSize].used
              /\ ch.sendQueue[oldest % SendQueueSize].id = oldest
        /\ UsedSlots(ch.sendQueue) = {} => oldest = ch.sendMessageId

\* an ack for a later message came first: the window still starts at the older
\* message, which is unacked, and the acked one behind it has left the queue
SendWindowWitness ==
    LET ch == chan["A"][0]
        oldest == ch.oldestUnackedMessageId
    IN  /\ (ch.sendMessageId - oldest) % SeqMod = SendQueueSize
        /\ ch.sendQueue[oldest % SendQueueSize].used
        /\ ch.sendQueue[oldest % SendQueueSize].id = oldest
        /\ Cardinality(UsedSlots(ch.sendQueue)) < SendQueueSize

\* C24: a reliable channel stores a received message id only if it lies in
\* [receiveMessageId, receiveMessageId + receiveQueueSize) modulo 2^16; a packet whose
\* ids are outside the window or stored already changes nothing; and a receive-queue
\* slot that holds a message changes only when ReceiveMessage delivers that message.
ReceiveWindowRule ==
    /\ [](\A p \in net :
             (/\ p.to = "B"
              /\ Len(p.entries) = 1
              /\ ~p.entries[1].blockMessage
              /\ \A k \in 1..Len(p.entries[1].messages) :
                    LET id == p.entries[1].messages[k].id
                        slot == chan["B"][0].receiveQueue[id % ReceiveQueueSize]
                    IN  \/ (id - chan["B"][0].receiveMessageId) % SeqMod >= ReceiveQueueSize
                        \/ slot.used /\ slot.id = id)
             => ProcessEntries(chan["B"], p.entries) = chan["B"])
    /\ [][LET ch == chan["B"][0]
              after == chan'["B"][0]
          IN  \A i \in DOMAIN ch.receiveQueue :
                  /\ (ch.receiveQueue[i].used /\ after.receiveQueue[i] # ch.receiveQueue[i]) =>
                        /\ ~after.receiveQueue[i].used
                        /\ ch.receiveQueue[i].id = ch.receiveMessageId
                        /\ after.receiveMessageId = (ch.receiveMessageId + 1) % SeqMod
                        /\ rcvLog'[0] = Append(rcvLog[0], Delivered(ch.receiveQueue[i]))
                  /\ (~ch.receiveQueue[i].used /\ after.receiveQueue[i].used) =>
                        /\ after.receiveQueue[i].id % ReceiveQueueSize = i
                        /\ (after.receiveQueue[i].id - ch.receiveMessageId) % SeqMod
                              < ReceiveQueueSize
                        /\ after.receiveMessageId = ch.receiveMessageId]_vars

\* a packet in flight carries an id of the next round of the window while the
\* message of the same slot is stored and not delivered yet
ReceiveWindowRuleWitness ==
    \E p \in net :
        /\ p.to = "B"
        /\ Len(p.entries) = 1
        /\ ~p.entries[1].blockMessage
        /\ \E k \in 1..Len(p.entries[1].messages) :
              LET id == p.entries[1].messages[k].id
                  slot == chan["B"][0].receiveQueue[id % ReceiveQueueSize]
              IN  /\ slot.used
                  /\ slot.id # id
                  /\ (id - chan["B"][0].receiveMessageId) % SeqMod >= ReceiveQueueSize

\* C25: while a block message is at the front of a reliable send queue, a generated
\* packet carries nothing but one fragment of that message, and never a fragment
\* that was acked; the block message leaves the send queue, and
\* oldestUnackedMessageId moves past it, only when all its
\* ceil(blockSize / blockFragmentSize) fragments were received and acked.
BlockSendProtocol ==
    [][LET ch == chan["A"][0]
           after == chan'["A"][0]
           oldest == ch.oldestUnackedMessageId
           slot == ch.sendQueue[oldest % SendQueueSize]
           numFragments == (Len(slot.block) + BlockFragmentSize - 1) \div BlockFragmentSize
           seq == conn["A"].generated
           sent == after.sentPacketMessageIds[seq % SlidingWindowSize]
       IN  RelFrontIsBlock(ch) =>
             /\ conn'["A"].generated = seq + 1 =>
                   /\ \A p \in net' \ net :
                         /\ Len(p.entries) = 1
                         /\ p.entries[1].blockMessage
                         /\ Len(p.entries[1].messages) = 1
                         /\ p.entries[1].messages[1].messageId = oldest
                         /\ p.entries[1].messages[1].numFragments = numFragments
                         /\ p.entries[1].messages[1].fragmentId \in 0..(numFragments - 1)
                         /\ p.entries[1].messages[1].fragmentId \notin ch.sendBlock.acked
                         /\ sent = [valid |-> TRUE, seq |-> seq, ids |-> <<oldest>>,
                                    fragment |-> p.entries[1].messages[1].fragmentId]
                   /\ after.sendQueue = ch.sendQueue
                   /\ after.oldestUnackedMessageId = oldest
                   /\ after.sendBlock.acked = (IF ch.sendBlock.active
                                                THEN ch.sendBlock.acked ELSE {})
             /\ (after.oldestUnackedMessageId # oldest
                    \/ after.sendQueue[oldest % SendQueueSize] # slot) =>
                   /\ ch.sendBlock.active
                   /\ ch.sendBlock.messageId = oldest
                   /\ Cardinality(ch.sendBlock.acked) = numFragments - 1
                   /\ \A f \in 0..(numFragments - 1) : <<oldest, f>> \in hist.fragsSeen
                   /\ ~after.sendQueue[oldest % SendQueueSize].used
                   /\ SequenceGreaterThan(after.oldestUnackedMessageId, oldest)]_vars

\* the last fragment of the block at the front is acked and the first is not: the
\* block is still in the send queue and the packet in flight resends fragment 0
BlockSendProtocolWitness ==
    LET ch == chan["A"][0]
    IN  /\ RelFrontIsBlock(ch)
        /\ ch.sendBlock.active
        /\ ch.sendBlock.acked = {ch.sendBlock.numFragments - 1}
        /\ ch.sendBlock.numFragments > 1
        /\ \E p \in net :
              /\ p.to = "B"
              /\ p.entries[1].blockMessage
              /\ p.entries[1].messages[1].messageId = ch.sendBlock.messageId
              /\ p.entries[1].messages[1].fragmentId = 0
              /\ p.seq > 1

\* C26: the send FIFO and the receive FIFO of an unreliable channel never hold more
\* than sendQueueSize and receiveQueueSize messages; SendMessage on a full send FIFO
\* discards the oldest queued message and enqueues the new one; a received message
\* that finds the receive FIFO full is discarded and the queued messages are kept.
UnreliableOverflow ==
    /\ [](\A e \in Endpoints :
             /\ Len(chan[e][1].sendQueue) <= SendQueueSize
             /\ Len(chan[e][1].receiveQueue) <= ReceiveQueueSize)
    /\ [][LET q == chan["A"][1].sendQueue
              q2 == chan'["A"][1].sendQueue
              rq == chan["B"][1].receiveQueue
              rq2 == chan'["B"][1].receiveQueue
              room == ReceiveQueueSize - Len(rq)
          IN  /\ sentLog'[1] # sentLog[1] =>
                    /\ q2 # <<>>
                    /\ q2[Len(q2)].payload = Len(sentLog'[1])
                    /\ SubSeq(q2, 1, Len(q2) - 1) =
                          (IF Len(q) = SendQueueSize THEN Tail(q) ELSE q)
              /\ (rq2 # rq /\ rcvLog' = rcvLog) =>
                    \E p \in net :
                        rq2 = rq \o SubSeq(p.entries[1].messages, 1,
                                            Min(room, Len(p.entries[1].messages)))
              /\ (Len(rq) = ReceiveQueueSize /\ rcvLog' = rcvLog) => rq2 = rq]_vars

\* three messages were sent after the last packet: the first of them is gone from
\* the full send FIFO; the receive FIFO is full and a packet is still to arrive
UnreliableOverflowWitness ==
    /\ Len(chan["A"][1].sendQueue) = SendQueueSize
    /\ Len(sentLog[1]) > 2
    /\ \A k \in 1..SendQueueSize :
          chan["A"][1].sendQueue[k].payload = Len(sentLog[1]) - SendQueueSize + k
    /\ \A p \in net : \A k \in 1..Len(p.entries[1].messages) :
          p.entries[1].messages[k].payload # Len(sentLog[1]) - SendQueueSize
    /\ Len(sentLog[1]) - SendQueueSize \notin
          {chan["B"][1].receiveQueue[k].payload : k \in 1..Len(chan["B"][1].receiveQueue)}
    /\ Len(chan["B"][1].receiveQueue) = ReceiveQueueSize
    /\ \E p \in net : p.to = "B"

\* C27: a buffer is held by a BlockMessage exactly while it is attached to it, from
\* AttachBlock until DetachBlock or destruction; AttachBlock happens only on a
\* message without a buffer; DetachBlock leaves no buffer, size 0 and no allocator and
\* frees nothing; destruction frees exactly the buffer still attached; so no buffer
\* is freed twice and none is freed while the caller holds it after a detach.
BlockOwnership ==
    /\ [](/\ \A b \in Buffers :
               /\ blocks.buffer[b].frees <= 1
               /\ blocks.buffer[b].holder = "freed" <=> blocks.buffer[b].frees = 1
               /\ blocks.buffer[b].holder = "message" <=>
                     \E m \in BlockMessages : blocks.message[m].m_blockData = b
               /\ Cardinality({m \in BlockMessages : blocks.message[m].m_blockData = b}) <= 1
          /\ \A m \in BlockMessages :
               /\ blocks.message[m].m_blockData = NULL <=> blocks.message[m].m_allocator = NULL
               /\ blocks.message[m].m_blockData = NULL <=> blocks.message[m].m_blockSize = 0
               /\ blocks.message[m].state # "alive" => blocks.message[m].m_blockData = NULL)
    /\ [][/\ \A m \in BlockMessages :
               LET msg == blocks.message[m]
                   after == blocks'.message[m]
               IN  /\ (after.m_blockData # msg.m_blockData /\ after.m_blockData # NULL) =>
                         /\ out'.op = "AttachBlock"
                         /\ msg.m_blockData = NULL
                         /\ blocks.buffer[after.m_blockData].holder = "caller"
                   /\ (out'.op = "DetachBlock" /\ out'.m = m) =>
                         /\ after = BlockMessageNew
                         /\ blocks'.buffer = [b \in Buffers |->
                               IF b = msg.m_blockData THEN [holder |-> "caller", frees |-> 0]
                               ELSE blocks.buffer[b]]
                   /\ (out'.op = "~BlockMessage" /\ out'.m = m) =>
                         /\ after.state = "destroyed"
                         /\ blocks'.buffer = [b \in Buffers |->
                               IF b = msg.m_blockData THEN [holder |-> "freed", frees |-> 1]
                               ELSE blocks.buffer[b]]
          /\ \A b \in Buffers :
               blocks'.buffer[b].frees # blocks.buffer[b].frees =>
                   /\ blocks.buffer[b].holder = "message"
                   /\ out'.op = "~BlockMessage"
                   /\ blocks.message[out'.m].m_blockData = b]_vars

\* both messages are destroyed: the last one held no buffer and its destructor freed
\* nothing, one buffer was freed once by the other message's destructor, and the
\* other buffer is still the caller's
BlockOwnershipWitness ==
    /\ out.op = "~BlockMessage"
    /\ out.freed = {}
    /\ \A m \in BlockMessages : blocks.message[m].state = "destroyed"
    /\ \E b \in Buffers : blocks.buffer[b] = [holder |-> "freed", frees |-> 1]
    /\ \E b \in Buffers : blocks.buffer[b] = [holder |-> "caller", frees |-> 0]

====
